---- MODULE Spec2Model ----
(***************************************************************************)
(* Model of the retrieval core of realhome_agent: QueryParser.parse,       *)
(* SearchQuery construction, EmbeddingModel.encode, SearchEngine (connect, *)
(* create_index, bulk_index_documents, hybrid_search and the remaining     *)
(* guarded operations), the two merges (indexer.merge_data,                *)
(* search_engine.load_and_merge_data), indexer.load_deals_data and         *)
(* indexer.index_data, and custom_tools.search_apartment_tool.             *)
(*                                                                         *)
(* Conventions.  Python None is the empty tuple and a present value v is   *)
(* the one-element tuple <<v>>, so that optional values of any type can be *)
(* compared.  A text is a sequence of characters; a Hangul syllable is     *)
(* written as its romanised name ("eok" for U+C5B5, "dae" for U+B300, ...),*)
(* one string per character, so that Python's substring test `p in q` is   *)
(* modelled character for character.  Floor areas of AREA_PATTERNS are in  *)
(* tenths of a square metre (62.7 is 627).                                 *)
(***************************************************************************)
EXTENDS Integers, Sequences, FiniteSets, TLC

VARIABLES
  pQuery,     \* QueryParser.parse: the text passed as `query`
  pResult,    \* QueryParser.parse: the returned dict, NoCall before the call
  sqArgs,     \* SearchQuery(...): the keyword arguments of the last construction
  sqOut,      \* SearchQuery(...): the object built, or the ValidationError
  sqFilters,  \* SearchEngine._build_filter_conditions(sqOut.query)
  isLoaded,   \* EmbeddingModel._is_loaded
  encCall,    \* EmbeddingModel.encode / encode_single: last call and outcome
  client,     \* SearchEngine.client
  esMapping,  \* backend: "none" (no index), "explicit" (INDEX_MAPPING), "dynamic"
  esDocs,     \* backend: stored documents of the index, id -> "vec" | "novec"
  call,       \* SearchEngine: last operation, its arguments and its outcome
  mIn,        \* indexer.merge_data: apartments, reviews, deals
  mOut,       \* indexer.merge_data: the returned records, or the exception
  _search_engine,  \* custom_tools._search_engine: the module's SearchEngine
  toolCall,   \* search_apartment_tool: last invocation and its outcome
  job,        \* indexer.index_data: its position and the engine calls it made
  threads     \* threads inside EmbeddingModel.encode: positions, loads done

parserVars == <<pQuery, pResult>>
queryVars  == <<sqArgs, sqOut, sqFilters>>
encVars    == <<isLoaded, encCall>>
engineVars == <<client, esMapping, esDocs, call>>
mergeVars  == <<mIn, mOut>>
toolVars   == <<_search_engine, toolCall>>
procVars   == <<job, threads>>
vars == <<pQuery, pResult, sqArgs, sqOut, sqFilters, isLoaded, encCall,
          client, esMapping, esDocs, call, mIn, mOut, _search_engine, toolCall,
          job, threads>>

None == <<>>
Some(v) == <<v>>
NoCall == [op |-> "none"]

Range(s) == {s[i] : i \in DOMAIN s}

(***************************************************************************)
(* The components a specification does not exercise stay in their state    *)
(* after construction.                                                     *)
(***************************************************************************)
ParserIdle == pQuery = <<>> /\ pResult = NoCall
QueryIdle  == sqArgs = None /\ sqOut = NoCall /\ sqFilters = None
EncIdle    == isLoaded = FALSE /\ encCall = NoCall
EngineIdle == client = None /\ esMapping = "none" /\ esDocs = <<>> /\ call = NoCall
MergeIdle  == mIn = None /\ mOut = NoCall
ToolIdle   == _search_engine = None /\ toolCall = NoCall
ProcIdle   == job = NoCall /\ threads = NoCall

(***************************************************************************)
(* QueryParser (agent_core.py)                                             *)
(***************************************************************************)

PRICE_PATTERNS ==
  <<
    [pat |-> <<"1", "eok", "dae">>, lo |-> 10000, hi |-> 19999],
    [pat |-> <<"2", "eok", "dae">>, lo |-> 20000, hi |-> 29999],
    [pat |-> <<"3", "eok", "dae">>, lo |-> 30000, hi |-> 39999],
    [pat |-> <<"4", "eok", "dae">>, lo |-> 40000, hi |-> 49999],
    [pat |-> <<"5", "eok", "dae">>, lo |-> 50000, hi |-> 59999],
    [pat |-> <<"6", "eok", "dae">>, lo |-> 60000, hi |-> 69999],
    [pat |-> <<"7", "eok", "dae">>, lo |-> 70000, hi |-> 79999],
    [pat |-> <<"8", "eok", "dae">>, lo |-> 80000, hi |-> 89999],
    [pat |-> <<"9", "eok", "dae">>, lo |-> 90000, hi |-> 99999],
    [pat |-> <<"1", "0", "eok", "dae">>, lo |-> 100000, hi |-> 109999],
    [pat |-> <<"5", "eok">>, lo |-> 50000, hi |-> 50000],
    [pat |-> <<"6", "eok">>, lo |-> 60000, hi |-> 60000],
    [pat |-> <<"7", "eok">>, lo |-> 70000, hi |-> 70000],
    [pat |-> <<"8", "eok">>, lo |-> 80000, hi |-> 80000],
    [pat |-> <<"9", "eok">>, lo |-> 90000, hi |-> 90000],
    [pat |-> <<"1", "0", "eok">>, lo |-> 100000, hi |-> 100000]
  >>

AREA_PATTERNS ==
  <<
    [pat |-> <<"1", "0", "pyeong", "dae">>, lo |-> 330, hi |-> 627],
    [pat |-> <<"2", "0", "pyeong", "dae">>, lo |-> 660, hi |-> 957],
    [pat |-> <<"3", "0", "pyeong", "dae">>, lo |-> 990, hi |-> 1287],
    [pat |-> <<"4", "0", "pyeong", "dae">>, lo |-> 1320, hi |-> 1617],
    [pat |-> <<"5", "0", "pyeong", "dae">>, lo |-> 1650, hi |-> 1947]
  >>

LIFESTYLE_MAPPINGS ==
  <<
    [pat |-> <<"a", "i">>, val |-> <<<<"yuk", "a">>, <<"gyo", "yuk">>, <<"an", "jeon">>, <<"hak", "gun">>>>],
    [pat |-> <<"yuk", "a">>, val |-> <<<<"yuk", "a">>, <<"gyo", "yuk">>, <<"an", "jeon">>, <<"nol", "i", "teo">>>>],
    [pat |-> <<"ja", "nyeo">>, val |-> <<<<"yuk", "a">>, <<"gyo", "yuk">>, <<"hak", "gun">>>>],
    [pat |-> <<"chul", "toe", "geun">>, val |-> <<<<"gyo", "tong">>, <<"yeok", "se", "gwon">>>>],
    [pat |-> <<"jik", "jang">>, val |-> <<<<"gyo", "tong">>, <<"yeok", "se", "gwon">>, <<"beo", "seu">>>>],
    [pat |-> <<"gyo", "tong">>, val |-> <<<<"gyo", "tong">>, <<"yeok", "se", "gwon">>, <<"beo", "seu">>>>],
    [pat |-> <<"jo", "yong">>, val |-> <<<<"jo", "yong", "han">>, <<"an", "jeon">>>>],
    [pat |-> <<"han", "jeok">>, val |-> <<<<"jo", "yong", "han">>, <<"ja", "yeon", "hwan", "gyeong">>>>],
    [pat |-> <<"no", "hu">>, val |-> <<<<"jo", "yong", "han">>, <<"ui", "ryo">>, <<"ja", "yeon", "hwan", "gyeong">>>>],
    [pat |-> <<"sin", "hon">>, val |-> <<<<"mun", "hwa", "saeng", "hwal">>, <<"syo", "ping">>, <<"ka", "pe">>>>],
    [pat |-> <<"mun", "hwa">>, val |-> <<<<"mun", "hwa", "saeng", "hwal">>, <<"syo", "ping">>, <<"gong", "yeon">>>>],
    [pat |-> <<"ban", "ryeo", "dong", "mul">>, val |-> <<<<"gong", "won">>, <<"san", "chaek", "ro">>>>],
    [pat |-> <<"gang", "a", "ji">>, val |-> <<<<"gong", "won">>, <<"san", "chaek", "ro">>>>],
    [pat |-> <<"un", "dong">>, val |-> <<<<"un", "dong">>, <<"hel", "seu", "jang">>, <<"gong", "won">>>>]
  >>

DISTRICT_MAPPINGS ==
  <<
    [pat |-> <<"song", "pa">>, val |-> <<<<"song", "pa", "gu">>>>],
    [pat |-> <<"jam", "sil">>, val |-> <<<<"song", "pa", "gu">>>>],
    [pat |-> <<"wi", "rye">>, val |-> <<<<"song", "pa", "gu">>>>],
    [pat |-> <<"jam", "sil", "dong">>, val |-> <<<<"song", "pa", "gu">>>>],
    [pat |-> <<"jam", "sil", "bon", "dong">>, val |-> <<<<"song", "pa", "gu">>>>],
    [pat |-> <<"sin", "cheon", "dong">>, val |-> <<<<"song", "pa", "gu">>>>],
    [pat |-> <<"pung", "nap", "dong">>, val |-> <<<<"song", "pa", "gu">>>>],
    [pat |-> <<"pung", "nap">>, val |-> <<<<"song", "pa", "gu">>>>],
    [pat |-> <<"bang", "i", "dong">>, val |-> <<<<"song", "pa", "gu">>>>],
    [pat |-> <<"bang", "i">>, val |-> <<<<"song", "pa", "gu">>>>],
    [pat |-> <<"o", "geum", "dong">>, val |-> <<<<"song", "pa", "gu">>>>],
    [pat |-> <<"o", "geum">>, val |-> <<<<"song", "pa", "gu">>>>],
    [pat |-> <<"song", "pa", "dong">>, val |-> <<<<"song", "pa", "gu">>>>],
    [pat |-> <<"seok", "chon", "dong">>, val |-> <<<<"song", "pa", "gu">>>>],
    [pat |-> <<"seok", "chon">>, val |-> <<<<"song", "pa", "gu">>>>],
    [pat |-> <<"sam", "jeon", "dong">>, val |-> <<<<"song", "pa", "gu">>>>],
    [pat |-> <<"sam", "jeon">>, val |-> <<<<"song", "pa", "gu">>>>],
    [pat |-> <<"ga", "rak", "dong">>, val |-> <<<<"song", "pa", "gu">>>>],
    [pat |-> <<"ga", "rak">>, val |-> <<<<"song", "pa", "gu">>>>],
    [pat |-> <<"mun", "jeong", "dong">>, val |-> <<<<"song", "pa", "gu">>>>],
    [pat |-> <<"mun", "jeong">>, val |-> <<<<"song", "pa", "gu">>>>],
    [pat |-> <<"jang", "ji", "dong">>, val |-> <<<<"song", "pa", "gu">>>>],
    [pat |-> <<"jang", "ji">>, val |-> <<<<"song", "pa", "gu">>>>],
    [pat |-> <<"geo", "yeo", "dong">>, val |-> <<<<"song", "pa", "gu">>>>],
    [pat |-> <<"geo", "yeo">>, val |-> <<<<"song", "pa", "gu">>>>],
    [pat |-> <<"ma", "cheon", "dong">>, val |-> <<<<"song", "pa", "gu">>>>],
    [pat |-> <<"ma", "cheon">>, val |-> <<<<"song", "pa", "gu">>>>],
    [pat |-> <<"ma", "po">>, val |-> <<<<"ma", "po", "gu">>>>],
    [pat |-> <<"hong", "dae">>, val |-> <<<<"ma", "po", "gu">>>>],
    [pat |-> <<"sin", "chon">>, val |-> <<<<"ma", "po", "gu">>>>],
    [pat |-> <<"gong", "deok", "dong">>, val |-> <<<<"ma", "po", "gu">>>>],
    [pat |-> <<"gong", "deok">>, val |-> <<<<"ma", "po", "gu">>>>],
    [pat |-> <<"a", "hyeon", "dong">>, val |-> <<<<"ma", "po", "gu">>>>],
    [pat |-> <<"a", "hyeon">>, val |-> <<<<"ma", "po", "gu">>>>],
    [pat |-> <<"do", "hwa", "dong">>, val |-> <<<<"ma", "po", "gu">>>>],
    [pat |-> <<"do", "hwa">>, val |-> <<<<"ma", "po", "gu">>>>],
    [pat |-> <<"yong", "gang", "dong">>, val |-> <<<<"ma", "po", "gu">>>>],
    [pat |-> <<"dae", "heung", "dong">>, val |-> <<<<"ma", "po", "gu">>>>],
    [pat |-> <<"yeom", "ri", "dong">>, val |-> <<<<"ma", "po", "gu">>>>],
    [pat |-> <<"sin", "su", "dong">>, val |-> <<<<"ma", "po", "gu">>>>],
    [pat |-> <<"seo", "gang", "dong">>, val |-> <<<<"ma", "po", "gu">>>>],
    [pat |-> <<"seo", "gyo", "dong">>, val |-> <<<<"ma", "po", "gu">>>>],
    [pat |-> <<"seo", "gyo">>, val |-> <<<<"ma", "po", "gu">>>>],
    [pat |-> <<"hap", "jeong", "dong">>, val |-> <<<<"ma", "po", "gu">>>>],
    [pat |-> <<"hap", "jeong">>, val |-> <<<<"ma", "po", "gu">>>>],
    [pat |-> <<"mang", "won", "dong">>, val |-> <<<<"ma", "po", "gu">>>>],
    [pat |-> <<"mang", "won">>, val |-> <<<<"ma", "po", "gu">>>>],
    [pat |-> <<"yeon", "nam", "dong">>, val |-> <<<<"ma", "po", "gu">>>>],
    [pat |-> <<"yeon", "nam">>, val |-> <<<<"ma", "po", "gu">>>>],
    [pat |-> <<"seong", "san", "dong">>, val |-> <<<<"ma", "po", "gu">>>>],
    [pat |-> <<"seong", "san">>, val |-> <<<<"ma", "po", "gu">>>>],
    [pat |-> <<"sang", "am", "dong">>, val |-> <<<<"ma", "po", "gu">>>>],
    [pat |-> <<"sang", "am">>, val |-> <<<<"ma", "po", "gu">>>>],
    [pat |-> <<"dong", "gyo", "dong">>, val |-> <<<<"ma", "po", "gu">>>>],
    [pat |-> <<"sang", "su", "dong">>, val |-> <<<<"ma", "po", "gu">>>>],
    [pat |-> <<"sang", "su">>, val |-> <<<<"ma", "po", "gu">>>>],
    [pat |-> <<"no", "won">>, val |-> <<<<"no", "won", "gu">>>>],
    [pat |-> <<"wol", "gye", "dong">>, val |-> <<<<"no", "won", "gu">>>>],
    [pat |-> <<"wol", "gye">>, val |-> <<<<"no", "won", "gu">>>>],
    [pat |-> <<"gong", "reung", "dong">>, val |-> <<<<"no", "won", "gu">>>>],
    [pat |-> <<"gong", "reung">>, val |-> <<<<"no", "won", "gu">>>>],
    [pat |-> <<"ha", "gye", "dong">>, val |-> <<<<"no", "won", "gu">>>>],
    [pat |-> <<"ha", "gye">>, val |-> <<<<"no", "won", "gu">>>>],
    [pat |-> <<"jung", "gye", "dong">>, val |-> <<<<"no", "won", "gu">>>>],
    [pat |-> <<"jung", "gye">>, val |-> <<<<"no", "won", "gu">>>>],
    [pat |-> <<"jung", "gye", "bon", "dong">>, val |-> <<<<"no", "won", "gu">>>>],
    [pat |-> <<"sang", "gye", "dong">>, val |-> <<<<"no", "won", "gu">>>>],
    [pat |-> <<"sang", "gye">>, val |-> <<<<"no", "won", "gu">>>>]
  >>

\* Python `pat in text` on str: pat occurs as a contiguous substring.
Contains(pat, text) ==
  \E i \in 1..(Len(text) - Len(pat) + 1) : SubSeq(text, i, i + Len(pat) - 1) = pat

UpperLetters == <<"A", "B", "C">>
LowerLetters == <<"a", "b", "c">>

\* str.lower() on one character: only cased letters change.
LowerChar(c) ==
  IF \E i \in DOMAIN UpperLetters : UpperLetters[i] = c
  THEN LowerLetters[CHOOSE i \in DOMAIN UpperLetters : UpperLetters[i] = c]
  ELSE c

Lower(text) == [i \in DOMAIN text |-> LowerChar(text[i])]

AtMostMarker == <<"i", "ha">>
AtLeastMarker == <<"i", "sang">>

\* Index of the last table entry whose pattern occurs in text, 0 if none.
LastMatch(table, text) ==
  IF \E i \in DOMAIN table : Contains(table[i].pat, text)
  THEN CHOOSE i \in DOMAIN table :
         /\ Contains(table[i].pat, text)
         /\ \A j \in DOMAIN table : Contains(table[j].pat, text) => j <= i
  ELSE 0

\* `for pattern, v in TABLE.items(): if pattern in text: ...; break`:
\* index of the first table entry, in declaration order, whose pattern occurs
\* in text, 0 if the loop ends without a match.
FirstMatch(table, text) ==
  IF \E i \in DOMAIN table : Contains(table[i].pat, text)
  THEN CHOOSE i \in DOMAIN table :
         /\ Contains(table[i].pat, text)
         /\ \A j \in DOMAIN table : Contains(table[j].pat, text) => i <= j
  ELSE 0

\* The two values of a table entry taken in the other order.
ParsePrice_Swapped(query) ==
  LET i == FirstMatch(PRICE_PATTERNS, query) IN
  IF i = 0 THEN [min_price |-> None, max_price |-> None]
  ELSE IF Contains(AtMostMarker, query)
       THEN [min_price |-> None, max_price |-> Some(PRICE_PATTERNS[i].lo)]
  ELSE IF Contains(AtLeastMarker, query)
       THEN [min_price |-> Some(PRICE_PATTERNS[i].hi), max_price |-> None]
  ELSE [min_price |-> Some(PRICE_PATTERNS[i].hi),
        max_price |-> Some(PRICE_PATTERNS[i].lo)]

\* The price block of parse: [min_price, max_price].
ParsePrice(query) ==
  LET i == FirstMatch(PRICE_PATTERNS, query) IN
  IF i = 0 THEN [min_price |-> None, max_price |-> None]
  ELSE IF Contains(AtMostMarker, query)
       THEN [min_price |-> None, max_price |-> Some(PRICE_PATTERNS[i].hi)]
  ELSE IF Contains(AtLeastMarker, query)
       THEN [min_price |-> Some(PRICE_PATTERNS[i].lo), max_price |-> None]
  ELSE [min_price |-> Some(PRICE_PATTERNS[i].lo),
        max_price |-> Some(PRICE_PATTERNS[i].hi)]

\* The area block of parse: [min_area, max_area].
ParseArea(query) ==
  LET i == FirstMatch(AREA_PATTERNS, query) IN
  IF i = 0 THEN [min_area |-> None, max_area |-> None]
  ELSE [min_area |-> Some(AREA_PATTERNS[i].lo),
        max_area |-> Some(AREA_PATTERNS[i].hi)]

\* list(keywords): the elements of a set, each once, in the order the set
\* iterates them (fixed for one set, not specified by the language).
RECURSIVE ListOfSet(_)
ListOfSet(S) ==
  IF S = {} THEN <<>>
  ELSE LET x == CHOOSE y \in S : TRUE IN <<x>> \o ListOfSet(S \ {x})

\* The districts of every matching trigger, merged.
ParseDistricts_Merged(query_lower) ==
  LET S == UNION {Range(DISTRICT_MAPPINGS[i].val) :
                    i \in {j \in DOMAIN DISTRICT_MAPPINGS :
                             Contains(DISTRICT_MAPPINGS[j].pat, query_lower)}}
  IN IF S = {} THEN None ELSE Some(ListOfSet(S))

\* The district block of parse, matched against query.lower().
ParseDistricts(query_lower) ==
  LET i == FirstMatch(DISTRICT_MAPPINGS, query_lower) IN
  IF i = 0 THEN None ELSE Some(DISTRICT_MAPPINGS[i].val)

\* The loop stopped at the first matching trigger, as in the other blocks.
LifestyleSet_FirstOnly(query_lower) ==
  LET i == FirstMatch(LIFESTYLE_MAPPINGS, query_lower) IN
  IF i = 0 THEN {} ELSE Range(LIFESTYLE_MAPPINGS[i].val)

\* The lifestyle block of parse: the Python set `keywords` after the loop.
LifestyleSet(query_lower) ==
  UNION {Range(LIFESTYLE_MAPPINGS[i].val) :
           i \in {j \in DOMAIN LIFESTYLE_MAPPINGS :
                    Contains(LIFESTYLE_MAPPINGS[j].pat, query_lower)}}

\* The lower-cased text stored in place of the input.
NaturalQuery_Lowered(query, query_lower) == query_lower

\* `"natural_query": query`: the input itself, not the lower-cased copy that
\* the district and lifestyle blocks match against.
NaturalQuery(query, query_lower) == query

\* The conditional left out: list(keywords) whatever the set holds.
LifestyleResult_List(keywords) == Some(ListOfSet(keywords))

\* `list(keywords) if keywords else None`
LifestyleResult(keywords) ==
  IF keywords # {} THEN Some(ListOfSet(keywords)) ELSE None

\* QueryParser.parse(query): the whole classmethod.
Parse(query) ==
  LET query_lower == Lower(query)
      price == ParsePrice(query)
      area == ParseArea(query)
      keywords == LifestyleSet(query_lower)
  IN [districts |-> ParseDistricts(query_lower),
      min_price |-> price.min_price,
      max_price |-> price.max_price,
      min_area |-> area.min_area,
      max_area |-> area.max_area,
      lifestyle_keywords |-> LifestyleResult(keywords),
      natural_query |-> NaturalQuery(query, query_lower)]

\* Input texts -------------------------------------------------------------
Apt == <<" ", "a", "pa", "teu">>

\* What follows the price phrase: nothing, one marker, or both markers.
MarkerSuffixes ==
  { <<>>,
    <<" ">> \o AtMostMarker,
    <<" ">> \o AtLeastMarker,
    <<" ">> \o AtMostMarker \o <<" ">> \o AtLeastMarker,
    <<" ">> \o AtLeastMarker \o <<" ">> \o AtMostMarker }

PriceTexts ==
  {PRICE_PATTERNS[i].pat \o m \o Apt : i \in DOMAIN PRICE_PATTERNS, m \in MarkerSuffixes}

Sp == <<" ">>

\* The queries of the parser's tests.
ComplexQuery ==
  <<"7", "eok", "dae", " ", "song", "pa", " ", "3", "0", "pyeong", "dae", " ",
    "a", "i", " ", "ki", "u", "gi", " ", "joh", "eun", " ", "jo", "yong", "han",
    " ", "a", "pa", "teu">>
TwoPricesQuery ==
  <<"5", "eok", "e", "seo", " ", "7", "eok", "dae", " ", "a", "pa", "teu">>
KoreanDigitsQuery == <<"chil", "eok", "dae", " ", "a", "pa", "teu">>
PreservedQuery ==
  <<"a", "i", " ", "ki", "u", "gi", " ", "joh", "eun", " ", "7", "eok", "dae",
    " ", "a", "pa", "teu">>

TestTexts ==
  {ComplexQuery, TwoPricesQuery, KoreanDigitsQuery, PreservedQuery,
   <<"A", "B", " ">> \o ComplexQuery}

\* Texts that hold no pattern of any table.
NoPatternTexts ==
  {<<>>, Apt, <<"A">> \o Apt, KoreanDigitsQuery, <<"eok", "dae">> \o Apt,
   <<"pyeong", "dae">> \o Apt, <<"5", " ", "eok">> \o Apt, <<"3", "0", " ", "pyeong">>}

\* One pattern of a table, or two patterns of the same table in either order.
OneOf(table) == {table[i].pat \o Apt : i \in DOMAIN table}
TwoOf(table, sample) ==
  {table[i].pat \o Sp \o table[j].pat \o Apt : i \in sample, j \in sample}

\* The district triggers used in pairs: two of each district.
DistrictSample ==
  {i \in DOMAIN DISTRICT_MAPPINGS :
     DISTRICT_MAPPINGS[i].pat \in {<<"song", "pa">>, <<"jam", "sil">>, <<"ma", "po">>,
                                   <<"hong", "dae">>, <<"no", "won">>, <<"sang", "gye">>}}

\* A phrase of each table in one text.
MixedTexts ==
  {PRICE_PATTERNS[i].pat \o m \o Sp \o DISTRICT_MAPPINGS[d].pat \o Sp
     \o AREA_PATTERNS[a].pat \o Sp \o LIFESTYLE_MAPPINGS[l].pat \o Apt :
       i \in {7, 13}, m \in {<<>>, Sp \o AtMostMarker},
       d \in DistrictSample, a \in {2, 3}, l \in {1, 7}}

ParserTexts ==
  PriceTexts \cup NoPatternTexts \cup TestTexts
  \cup OneOf(AREA_PATTERNS) \cup OneOf(DISTRICT_MAPPINGS) \cup OneOf(LIFESTYLE_MAPPINGS)
  \cup TwoOf(PRICE_PATTERNS, DOMAIN PRICE_PATTERNS)
  \cup TwoOf(AREA_PATTERNS, DOMAIN AREA_PATTERNS)
  \cup TwoOf(DISTRICT_MAPPINGS, DistrictSample)
  \cup TwoOf(LIFESTYLE_MAPPINGS, DOMAIN LIFESTYLE_MAPPINGS)
  \cup MixedTexts

ParserInit == pQuery \in ParserTexts /\ pResult = NoCall

DoParse ==
  /\ pResult = NoCall
  /\ pResult' = [op |-> "parse", ret |-> Parse(pQuery)]
  /\ UNCHANGED <<pQuery, queryVars, encVars, engineVars, mergeVars, toolVars, procVars>>

\* A new request arrives.
NextText ==
  /\ pResult # NoCall
  /\ pQuery' \in ParserTexts
  /\ pResult' = NoCall
  /\ UNCHANGED <<queryVars, encVars, engineVars, mergeVars, toolVars, procVars>>

InitParser == ParserInit /\ QueryIdle /\ EncIdle /\ EngineIdle /\ MergeIdle /\ ToolIdle /\ ProcIdle
NextParser == DoParse \/ NextText
SpecParser == InitParser /\ [][NextParser]_vars

\* C2: for every entry P -> (lo, hi) of PRICE_PATTERNS, parse of P followed by
\* the markers and " apateu" returns min_price = lo and max_price = hi when
\* the text holds neither marker, only max_price = hi when it holds the
\* at-most marker, and only min_price = lo when it holds the at-least marker
\* (and not the at-most marker, which is tested first).
C2_PriceBands ==
  pResult # NoCall =>
    \A i \in DOMAIN PRICE_PATTERNS : \A m \in MarkerSuffixes :
      pQuery = PRICE_PATTERNS[i].pat \o m \o Apt =>
        LET r == pResult.ret
            lo == Some(PRICE_PATTERNS[i].lo)
            hi == Some(PRICE_PATTERNS[i].hi)
            atMost == Contains(AtMostMarker, pQuery)
            atLeast == Contains(AtLeastMarker, pQuery)
        IN /\ (~atMost /\ ~atLeast) => (r.min_price = lo /\ r.max_price = hi)
           /\ atMost => (r.min_price = None /\ r.max_price = hi)
           /\ (atLeast /\ ~atMost) => (r.min_price = lo /\ r.max_price = None)

\* A band phrase with the at-least marker alone has been parsed.
C2_Witness ==
  /\ pResult # NoCall
  /\ pQuery = PRICE_PATTERNS[7].pat \o <<" ">> \o AtLeastMarker \o Apt
  /\ pResult.ret.min_price = Some(70000)
  /\ pResult.ret.max_price = None


\* The entries of a table whose pattern occurs in a text, and the first one.
Matching(table, text) == {i \in DOMAIN table : Contains(table[i].pat, text)}
Least(S) == CHOOSE i \in S : \A j \in S : i <= j

\* C14: parse returns natural_query equal to the input text, character for
\* character, whatever fields it extracted.
C14_NaturalQueryVerbatim ==
  pResult # NoCall =>
    /\ Len(pResult.ret.natural_query) = Len(pQuery)
    /\ \A i \in DOMAIN pQuery : pResult.ret.natural_query[i] = pQuery[i]

\* A text with capital letters from which price, area, district and lifestyle
\* were all extracted.
C14_Witness ==
  /\ pResult # NoCall
  /\ pQuery = <<"A", "B", " ">> \o ComplexQuery
  /\ pResult.ret.natural_query[1] = "A"
  /\ pResult.ret.min_price = Some(70000)
  /\ pResult.ret.min_area # None
  /\ pResult.ret.districts # None
  /\ pResult.ret.lifestyle_keywords # None

HoldsNoPattern(text) ==
  /\ Matching(PRICE_PATTERNS, text) = {}
  /\ Matching(AREA_PATTERNS, text) = {}
  /\ Matching(DISTRICT_MAPPINGS, text) = {}
  /\ Matching(LIFESTYLE_MAPPINGS, text) = {}

C16_EmptyQuery ==
  (pResult # NoCall /\ pQuery = <<>>) =>
    /\ pResult.ret.districts = None
    /\ pResult.ret.min_price = None
    /\ pResult.ret.lifestyle_keywords = Some(<<>>)

\* C17: a text that holds "30pyeongdae" yields min_area 85 and max_area 100,
\* and one that holds "20pyeongdae" yields 59 and 75 (in tenths: 850, 1000,
\* 590, 750), whatever other phrases the text holds.
C17_AreaBands ==
  pResult # NoCall =>
    /\ (Contains(<<"3", "0", "pyeong", "dae">>, pQuery)
          /\ ~Contains(<<"2", "0", "pyeong", "dae">>, pQuery)) =>
         (pResult.ret.min_area = Some(850) /\ pResult.ret.max_area = Some(1000))
    /\ (Contains(<<"2", "0", "pyeong", "dae">>, pQuery)
          /\ ~Contains(<<"3", "0", "pyeong", "dae">>, pQuery)) =>
         (pResult.ret.min_area = Some(590) /\ pResult.ret.max_area = Some(750))

\* C18: lifestyle_keywords holds every keyword of every trigger that occurs in
\* the text, no keyword that no occurring trigger maps to, and no keyword
\* twice.
C18_LifestyleUnion ==
  pResult # NoCall =>
    LET M == Matching(LIFESTYLE_MAPPINGS, pQuery)
        kws == pResult.ret.lifestyle_keywords
        list == IF kws = None THEN <<>> ELSE kws[1]
    IN /\ \A j \in M : \A k \in DOMAIN LIFESTYLE_MAPPINGS[j].val :
            \E a \in DOMAIN list : list[a] = LIFESTYLE_MAPPINGS[j].val[k]
       /\ \A a \in DOMAIN list :
            \E j \in M : \E k \in DOMAIN LIFESTYLE_MAPPINGS[j].val :
              list[a] = LIFESTYLE_MAPPINGS[j].val[k]
       /\ \A a, b \in DOMAIN list : list[a] = list[b] => a = b

\* Two triggers that share a keyword: four keywords and two, five in all.
C18_Witness ==
  /\ pResult # NoCall
  /\ pQuery = LIFESTYLE_MAPPINGS[1].pat \o Sp \o LIFESTYLE_MAPPINGS[7].pat \o Apt
  /\ Len(LIFESTYLE_MAPPINGS[1].val) = 4
  /\ Len(LIFESTYLE_MAPPINGS[7].val) = 2
  /\ pResult.ret.lifestyle_keywords # None
  /\ Len(pResult.ret.lifestyle_keywords[1]) = 5

\* C20: for price, area and district the result is what the first entry, in
\* the table's declared order, whose pattern occurs in the text yields, and
\* nothing of a later matching entry; districts is the list of one trigger.
C20_FirstMatchWins ==
  pResult # NoCall =>
    LET r == pResult.ret
        MP == Matching(PRICE_PATTERNS, pQuery)
        MA == Matching(AREA_PATTERNS, pQuery)
        MD == Matching(DISTRICT_MAPPINGS, pQuery)
    IN /\ MP # {} =>
            LET e == PRICE_PATTERNS[Least(MP)] IN
            IF Contains(AtMostMarker, pQuery)
            THEN r.min_price = None /\ r.max_price = Some(e.hi)
            ELSE IF Contains(AtLeastMarker, pQuery)
            THEN r.min_price = Some(e.lo) /\ r.max_price = None
            ELSE r.min_price = Some(e.lo) /\ r.max_price = Some(e.hi)
       /\ MA # {} =>
            /\ r.min_area = Some(AREA_PATTERNS[Least(MA)].lo)
            /\ r.max_area = Some(AREA_PATTERNS[Least(MA)].hi)
       /\ MD # {} => r.districts = Some(DISTRICT_MAPPINGS[Least(MD)].val)

\* "mapo songpa": the trigger declared first is the one named second in the
\* text, and districts is its list alone.
C20_Witness ==
  /\ pResult # NoCall
  /\ pQuery = <<"ma", "po", " ", "song", "pa">> \o Apt
  /\ Cardinality(Matching(DISTRICT_MAPPINGS, pQuery)) = 2
  /\ pResult.ret.districts = Some(<<<<"song", "pa", "gu">>>>)

(***************************************************************************)
(* SearchQuery (models.py) and SearchEngine._build_filter_conditions       *)
(***************************************************************************)
TopKMin == 1
TopKMax == 50
TopKDefault == 10
\* hybrid_weight is counted in tenths: 0.5 is 5, the range [0.0, 1.0] is 0..10.
HybridWeightDefault == 5
HybridWeightMax == 10

\* Largest number used for a price, area or floor bound of a request.
MaxVal == 2

\* Field(None, ge=0): the value fails when it is present and negative.
GeZeroFails(v) == v # None /\ v[1] < 0

\* A mis-typed comparison: the validator rejects ordered ranges instead.
validate_price_range_mut(v, min_price) ==
  v # None /\ min_price # None /\ v[1] > min_price[1]

\* SearchQuery.validate_price_range: TRUE when it raises ValueError.
validate_price_range(v, min_price) ==
  v # None /\ min_price # None /\ v[1] < min_price[1]

\* SearchQuery.validate_area_range: TRUE when it raises ValueError.
validate_area_range(v, min_area) ==
  v # None /\ min_area # None /\ v[1] < min_area[1]

\* info.data.get(field): the validated value, None when the field failed.
InfoData(args, field) == IF GeZeroFails(args[field]) THEN None ELSE args[field]

\* The fields of the keyword arguments that fail validation.
FieldErrors(args) ==
  {f \in {"min_price", "max_price", "min_area", "max_area"} : GeZeroFails(args[f])}
  \cup (IF validate_price_range(args.max_price, InfoData(args, "min_price"))
        THEN {"max_price"} ELSE {})
  \cup (IF validate_area_range(args.max_area, InfoData(args, "min_area"))
        THEN {"max_area"} ELSE {})
  \cup (IF args.top_k < TopKMin \/ args.top_k > TopKMax THEN {"top_k"} ELSE {})
  \cup (IF args.hybrid_weight < 0 \/ args.hybrid_weight > HybridWeightMax
        THEN {"hybrid_weight"} ELSE {})

\* SearchQuery(**args): the object, or the pydantic ValidationError.
NewSearchQuery(args) ==
  IF FieldErrors(args) = {}
  THEN [op |-> "SearchQuery", raised |-> FALSE, query |-> args]
  ELSE [op |-> "SearchQuery", raised |-> TRUE, errors |-> FieldErrors(args)]

\* One range clause of _build_filter_conditions: empty when both bounds are None.
RangeFilter(field, lo, hi) ==
  IF lo = None /\ hi = None THEN <<>>
  ELSE << [kind |-> "range", field |-> field, gte |-> lo, lte |-> hi, values |-> <<>>] >>

\* SearchEngine._build_filter_conditions(query): the list of filter clauses.
BuildFilterConditions(query) ==
  (IF query.districts # None /\ query.districts[1] # <<>>
   THEN << [kind |-> "terms", field |-> "gu", gte |-> None, lte |-> None,
            values |-> query.districts[1]] >>
   ELSE <<>>)
  \o RangeFilter("price_manwon", query.min_price, query.max_price)
  \o RangeFilter("area_m2", query.min_area, query.max_area)
  \o RangeFilter("floor", query.min_floor, query.max_floor)
  \o RangeFilter("year_built", query.min_year_built, None)

\* Requests -----------------------------------------------------------------
OptVals == {None} \cup {Some(v) : v \in -1..MaxVal}
TopKVals == {TopKMin - 1, TopKMin, TopKDefault, TopKMax, TopKMax + 1}

\* Arguments with the fields not listed left at their defaults.
QueryArgs(districts, minp, maxp, mina, maxa, minf, maxf, topk) ==
  [districts |-> districts, dong |-> None,
   min_price |-> minp, max_price |-> maxp,
   min_area |-> mina, max_area |-> maxa,
   min_floor |-> minf, max_floor |-> maxf,
   min_year_built |-> None,
   lifestyle_keywords |-> None, natural_query |-> None,
   top_k |-> topk, hybrid_weight |-> HybridWeightDefault]

QueryInit ==
  /\ \E minp \in OptVals, maxp \in OptVals, mina \in OptVals, maxa \in OptVals,
        minf \in OptVals, maxf \in OptVals, topk \in TopKVals :
       sqArgs = Some(QueryArgs(None, minp, maxp, mina, maxa, minf, maxf, topk))
  /\ sqOut = NoCall
  /\ sqFilters = None

\* query = SearchQuery(**args)
ConstructQuery ==
  /\ sqOut = NoCall
  /\ sqOut' = NewSearchQuery(sqArgs[1])
  /\ UNCHANGED <<sqArgs, sqFilters, parserVars, encVars, engineVars, mergeVars, toolVars, procVars>>

\* filter_conditions = self._build_filter_conditions(query)
BuildFilters ==
  /\ sqOut # NoCall
  /\ ~sqOut.raised
  /\ sqFilters = None
  /\ sqFilters' = Some(BuildFilterConditions(sqOut.query))
  /\ UNCHANGED <<sqArgs, sqOut, parserVars, encVars, engineVars, mergeVars, toolVars, procVars>>

InitQuery == QueryInit /\ ParserIdle /\ EncIdle /\ EngineIdle /\ MergeIdle /\ ToolIdle /\ ProcIdle
NextQuery == ConstructQuery \/ BuildFilters
SpecQuery == InitQuery /\ [][NextQuery]_vars

Inverted(lo, hi) == lo # None /\ hi # None /\ lo[1] > hi[1]

\* C3: a construction whose arguments hold an inverted price range or an
\* inverted area range raises, and no SearchQuery object that was built has
\* min_price > max_price or min_area > max_area.
C3_InvertedRejected ==
  sqOut # NoCall =>
    /\ (Inverted(sqArgs[1].min_price, sqArgs[1].max_price)
         \/ Inverted(sqArgs[1].min_area, sqArgs[1].max_area)) => sqOut.raised
    /\ ~sqOut.raised =>
         /\ ~Inverted(sqOut.query.min_price, sqOut.query.max_price)
         /\ ~Inverted(sqOut.query.min_area, sqOut.query.max_area)

\* A construction with min_price > max_price, both valid on their own, raised.
C3_Witness ==
  /\ sqOut # NoCall
  /\ sqArgs[1].min_price = Some(2)
  /\ sqArgs[1].max_price = Some(1)
  /\ sqOut.raised
  /\ sqOut.errors = {"max_price"}

\* C4: a construction with min_floor > max_floor is rejected, so that no
\* floor range filter built by _build_filter_conditions has gte > lte.
C4_FloorOrdered ==
  /\ sqOut # NoCall /\ Inverted(sqArgs[1].min_floor, sqArgs[1].max_floor)
       => sqOut.raised
  /\ sqFilters # None =>
       \A i \in DOMAIN sqFilters[1] :
         sqFilters[1][i].field = "floor" =>
           ~Inverted(sqFilters[1][i].gte, sqFilters[1][i].lte)

\* A SearchQuery built from a parse result ------------------------------------
SupportedDistricts ==
  {<<"song", "pa", "gu">>, <<"ma", "po", "gu">>, <<"no", "won", "gu">>}

\* SearchQuery(districts=parsed["districts"], ..., natural_query=parsed[...])
ParsedQueryArgs(parsed) ==
  [QueryArgs(parsed.districts, parsed.min_price, parsed.max_price,
             parsed.min_area, parsed.max_area, None, None, TopKDefault)
     EXCEPT !.lifestyle_keywords = parsed.lifestyle_keywords,
            !.natural_query = Some(parsed.natural_query)]

\* C29: the fields parse returns form a valid SearchQuery: price and area
\* ranges are ordered when both ends are set, no bound is negative, districts
\* is None or a non-empty list of supported districts, and constructing the
\* SearchQuery raises no validation error.
C29_ParseFormsValidQuery ==
  pResult # NoCall =>
    LET r == pResult.ret IN
    /\ (r.min_price # None /\ r.max_price # None) => r.min_price[1] <= r.max_price[1]
    /\ (r.min_area # None /\ r.max_area # None) => r.min_area[1] <= r.max_area[1]
    /\ \A v \in {r.min_price, r.max_price, r.min_area, r.max_area} :
         v # None => v[1] >= 0
    /\ r.districts # None =>
         (r.districts[1] # <<>> /\ Range(r.districts[1]) \subseteq SupportedDistricts)
    /\ ~NewSearchQuery(ParsedQueryArgs(r)).raised

\* The query of the integration test: district, both prices and both areas.
C29_Witness ==
  /\ pResult # NoCall /\ pQuery = ComplexQuery
  /\ pResult.ret.districts # None
  /\ pResult.ret.min_price # None /\ pResult.ret.max_price # None
  /\ pResult.ret.min_area # None /\ pResult.ret.max_area # None
  /\ ~NewSearchQuery(ParsedQueryArgs(pResult.ret)).raised

(***************************************************************************)
(* EmbeddingModel (search_engine.py)                                       *)
(***************************************************************************)
\* Output dimension of the default model BAAI/bge-m3 (ESConfig.embedding_dim).
ModelDim == 1024
\* Width of the zero array substituted for a failed batch.
ZeroDim == 768
\* INDEX_MAPPING: dims of the dense_vector field "embedding".
IndexDims == 1024
\* Default batch_size of encode, the one encode_single uses.
DefaultBatchSize == 32

\* Largest number of texts passed to one encode call.
MaxTexts == 3
\* Largest batch_size passed to encode by the calls that are enumerated.
MaxBatch == 2

Min(a, b) == IF a < b THEN a ELSE b

\* len(range(0, len(texts), batch_size))
NumBatches(n, batch_size) == (n + batch_size - 1) \div batch_size

\* texts[i:i + batch_size] for the k-th batch, k = 1, 2, ...
BatchTexts(texts, batch_size, k) ==
  SubSeq(texts, (k - 1) * batch_size + 1, Min(k * batch_size, Len(texts)))

\* The vector the model computes for a text, and a row of np.zeros.
RealVector(t) == [text |-> Some(t), dim |-> ModelDim]
ZeroVector == [text |-> None, dim |-> ZeroDim]

\* What one iteration of the loop appends to all_embeddings: the batch's
\* embeddings, or np.zeros((len(batch_texts), 768)) when the batch failed.
BatchArray(batch_texts, failed) ==
  IF failed
  THEN [rows |-> [i \in DOMAIN batch_texts |-> ZeroVector], width |-> ZeroDim]
  ELSE [rows |-> [i \in DOMAIN batch_texts |-> RealVector(batch_texts[i])],
        width |-> ModelDim]

RECURSIVE ConcatRows(_)
ConcatRows(arrays) ==
  IF arrays = <<>> THEN <<>> ELSE Head(arrays).rows \o ConcatRows(Tail(arrays))

\* np.vstack(arrays): ValueError for an empty list and for arrays of
\* different widths, else the rows of all arrays in order.
VStack(arrays) ==
  IF arrays = <<>> \/ \E i, j \in DOMAIN arrays : arrays[i].width # arrays[j].width
  THEN [raised |-> TRUE, vecs |-> <<>>]
  ELSE [raised |-> FALSE, vecs |-> ConcatRows(arrays)]

\* EmbeddingModel.encode(texts, batch_size) with the model loaded: failed is
\* the set of batches in which tokenizing or the forward pass raises.
EncodeLoaded(texts, batch_size, failed) ==
  VStack([k \in 1..NumBatches(Len(texts), batch_size) |->
            BatchArray(BatchTexts(texts, batch_size, k), k \in failed)])

\* EmbeddingModel.encode: load() first when not loaded; its exception
\* propagates.  The outcome, with the value _is_loaded has afterwards.
EncodeOutcome(loaded, loadOk, texts, batch_size, failed) ==
  IF ~loaded /\ ~loadOk
  THEN [raised |-> TRUE, vecs |-> <<>>, loaded |-> FALSE]
  ELSE LET r == EncodeLoaded(texts, batch_size, failed)
       IN [raised |-> r.raised, vecs |-> r.vecs, loaded |-> TRUE]

\* Calls -------------------------------------------------------------------
TextIds == {"t1", "t2"}
TextLists == UNION {[1..n -> TextIds] : n \in 0..MaxTexts}

EncInit == isLoaded = FALSE /\ encCall = NoCall

\* embeddings = model.encode(texts, batch_size)
Encode ==
  /\ encCall = NoCall
  /\ \E texts \in TextLists, batch_size \in 1..MaxBatch, loadOk \in BOOLEAN :
     \E failed \in SUBSET (1..NumBatches(Len(texts), batch_size)) :
       LET r == EncodeOutcome(isLoaded, loadOk, texts, batch_size, failed) IN
       /\ isLoaded' = r.loaded
       /\ encCall' = [op |-> "encode", texts |-> texts, batch_size |-> batch_size,
                      loadRaised |-> (~isLoaded /\ ~loadOk),
                      failed |-> IF ~isLoaded /\ ~loadOk THEN {} ELSE failed,
                      raised |-> r.raised, vecs |-> r.vecs]
  /\ UNCHANGED <<parserVars, queryVars, engineVars, mergeVars, toolVars, procVars>>

\* vector = model.encode_single(text): self.encode([text])[0].tolist()
EncodeSingle ==
  /\ encCall = NoCall
  /\ \E text \in TextIds, loadOk \in BOOLEAN, failed \in SUBSET {1} :
       LET r == EncodeOutcome(isLoaded, loadOk, <<text>>, DefaultBatchSize, failed) IN
       /\ isLoaded' = r.loaded
       /\ encCall' = [op |-> "encode_single", texts |-> <<text>>,
                      batch_size |-> DefaultBatchSize,
                      loadRaised |-> (~isLoaded /\ ~loadOk),
                      failed |-> IF ~isLoaded /\ ~loadOk THEN {} ELSE failed,
                      raised |-> r.raised,
                      vecs |-> IF r.raised THEN <<>> ELSE <<r.vecs[1]>>]
  /\ UNCHANGED <<parserVars, queryVars, engineVars, mergeVars, toolVars, procVars>>

\* The caller takes the result; the model stays loaded.
EncodeReturn ==
  /\ encCall # NoCall
  /\ encCall' = NoCall
  /\ UNCHANGED <<isLoaded, parserVars, queryVars, engineVars, mergeVars, toolVars, procVars>>

InitEncode == EncInit /\ ParserIdle /\ QueryIdle /\ EngineIdle /\ MergeIdle /\ ToolIdle /\ ProcIdle
NextEncode == Encode \/ EncodeSingle \/ EncodeReturn
SpecEncode == InitEncode /\ [][NextEncode]_vars

\* C6: when the model loads and no batch fails, encode(texts, batch_size)
\* returns without raising exactly len(texts) vectors, the i-th one computed
\* from texts[i], for every list (the empty list included) and batch_size >= 1.
C6_LengthAndOrder ==
  (encCall # NoCall /\ encCall.op = "encode" /\ ~encCall.loadRaised
     /\ encCall.failed = {}) =>
    /\ ~encCall.raised
    /\ Len(encCall.vecs) = Len(encCall.texts)
    /\ \A i \in DOMAIN encCall.vecs : encCall.vecs[i].text = Some(encCall.texts[i])

\* C7: when some batches of one encode call fail and others succeed, the call
\* returns without raising len(texts) vectors: a zero vector for every text
\* of a failed batch, the real vector for every text of a successful batch.
C7_PartialFailureReturns ==
  (encCall # NoCall /\ encCall.op = "encode" /\ ~encCall.loadRaised
     /\ encCall.failed # {}
     /\ encCall.failed # 1..NumBatches(Len(encCall.texts), encCall.batch_size)) =>
    /\ ~encCall.raised
    /\ Len(encCall.vecs) = Len(encCall.texts)
    /\ \A i \in DOMAIN encCall.vecs :
         LET k == ((i - 1) \div encCall.batch_size) + 1 IN
         IF k \in encCall.failed
         THEN encCall.vecs[i].text = None
         ELSE encCall.vecs[i].text = Some(encCall.texts[i])

\* C8: every vector returned by encode or encode_single, the zero vector of a
\* failed batch included, has the dimension of the index's embedding field.
C8_OneDimension ==
  (encCall # NoCall /\ ~encCall.raised) =>
    \A i \in DOMAIN encCall.vecs : encCall.vecs[i].dim = IndexDims

(***************************************************************************)
(* SearchEngine (search_engine.py) and the document-store backend          *)
(***************************************************************************)
\* Default max_retries of connect.
MaxRetriesDefault == 10
\* Default bm25_weight and vector_weight of hybrid_search, in tenths.
Bm25WeightDefault == 5
VectorWeightDefault == 5

\* Number of documents of the corpus offered for indexing.
MaxDocs == 3

Connected == Some("es")

\* The corpus: the merged documents offered to bulk_index_documents, keyed by
\* kapt_code.  Every third document has no transaction row (null price and
\* area).
DocIds == 1..MaxDocs
Districts == <<"songpagu", "mapogu", "nowongu">>
DocGu(d) == Districts[((d - 1) % 3) + 1]
DocPrice(d) == IF d % 3 = 0 THEN None ELSE Some(d % 3)
DocArea(d) == IF d % 3 = 0 THEN None ELSE Some((d + 1) % 3)
DocFloor(d) == IF d % 3 = 0 THEN None ELSE Some(d)
DocField(d, field) ==
  CASE field = "gu" -> Some(DocGu(d))
    [] field = "price_manwon" -> DocPrice(d)
    [] field = "area_m2" -> DocArea(d)
    [] field = "floor" -> DocFloor(d)
    [] OTHER -> None

RECURSIVE SeqOfIds(_)
\* The documents of a set as a list, by id.
SeqOfIds(S) ==
  IF S = {} THEN <<>>
  ELSE LET m == CHOOSE x \in S : \A y \in S : x <= y IN <<m>> \o SeqOfIds(S \ {m})

\* " ".join(parts)
RECURSIVE JoinSpace(_)
JoinSpace(parts) ==
  IF parts = <<>> THEN <<>>
  ELSE IF Len(parts) = 1 THEN parts[1]
  ELSE parts[1] \o <<" ">> \o JoinSpace(Tail(parts))

\* Truthiness of an Optional[str] / Optional[List]: set and not empty.
Truthy(v) == v # None /\ v[1] # <<>>

MatchClause(field, text, boost) ==
  [kind |-> "match", field |-> field, query |-> text, boost |-> boost]

\* SearchEngine._build_bm25_query(query): the should clauses, boosts in tenths.
BuildBm25Query(query) ==
  LET nat == IF Truthy(query.natural_query)
             THEN << MatchClause("combined_review", query.natural_query[1], 20),
                     MatchClause("pros", query.natural_query[1], 15),
                     MatchClause("cons", query.natural_query[1], 10),
                     MatchClause("doro_juso", query.natural_query[1], 10),
                     MatchClause("kapt_name", query.natural_query[1], 15) >>
             ELSE <<>>
      life == IF Truthy(query.lifestyle_keywords)
              THEN LET kq == JoinSpace(query.lifestyle_keywords[1]) IN
                   << MatchClause("combined_review", kq, 25),
                      MatchClause("pros", kq, 20) >>
              ELSE <<>>
      dong == IF Truthy(query.dong)
              THEN << MatchClause("dong", query.dong[1], 15) >>
              ELSE <<>>
      should == nat \o life \o dong
  IN IF should = <<>>
     THEN << [kind |-> "match_all", field |-> "", query |-> <<>>, boost |-> 10] >>
     ELSE should

FallbackSearchText == <<"seo", "ul", " ", "a", "pa", "teu", " ", "chu", "cheon">>

\* SearchEngine._build_search_text(query)
BuildSearchText(query) ==
  LET texts ==
        (IF Truthy(query.natural_query) THEN <<query.natural_query[1]>> ELSE <<>>)
        \o (IF Truthy(query.lifestyle_keywords)
            THEN <<JoinSpace(query.lifestyle_keywords[1])>> ELSE <<>>)
        \o (IF Truthy(query.dong) THEN <<query.dong[1] \o Apt>> ELSE <<>>)
        \o (IF Truthy(query.districts)
            THEN <<JoinSpace([i \in DOMAIN query.districts[1] |->
                                <<query.districts[1][i]>>])>>
            ELSE <<>>)
  IN IF texts # <<>> THEN JoinSpace(texts) ELSE FallbackSearchText

\* search_body of hybrid_search: the keyword bool query with the filter
\* clauses, and the top-level knn section, which is given no filter.
SearchBody(query, query_embedding) ==
  [size |-> query.top_k,
   should |-> BuildBm25Query(query),
   should_boost |-> Bm25WeightDefault,
   filter |-> BuildFilterConditions(query),
   knn |-> [field |-> "embedding", query_vector |-> query_embedding,
            k |-> query.top_k, num_candidates |-> query.top_k * 2,
            boost |-> VectorWeightDefault, filter |-> <<>>]]

\* Backend: a document passes a filter clause (a missing value passes none).
PassesClause(d, c) ==
  LET v == DocField(d, c.field) IN
  IF c.kind = "terms" THEN v # None /\ \E i \in DOMAIN c.values : c.values[i] = v[1]
  ELSE /\ v # None
       /\ c.gte # None => v[1] >= c.gte[1]
       /\ c.lte # None => v[1] <= c.lte[1]

PassesAll(d, clauses) == \A i \in DOMAIN clauses : PassesClause(d, clauses[i])

\* Backend: the sets of documents the bool query of the body may match.  The
\* filter clauses admit or exclude; a should clause is required only when the
\* bool query has no filter clause, and which documents a match clause hits
\* is the analyzer's business (any subset).
QueryMatchSets(body, stored) ==
  LET pass == {d \in stored : PassesAll(d, body.filter)} IN
  IF body.filter # <<>> \/ \E i \in DOMAIN body.should : body.should[i].kind = "match_all"
  THEN {pass}
  ELSE SUBSET pass

\* Backend: the documents the knn section may return: k of those that have a
\* vector and pass the knn section's own filter.
KnnMatchSets(body, withVector) ==
  LET cand == {d \in withVector : PassesAll(d, body.knn.filter)} IN
  {K \in SUBSET cand : Cardinality(K) = Min(body.knn.k, Cardinality(cand))}

\* Backend: the hit lists a search request may be answered with.  The knn
\* matches and the query matches are combined by disjunction and the best
\* `size` are returned; which documents score best is the backend's choice.
\* Hits are listed by id (the score order is not modelled).
SearchResponses(body, stored, withVector) ==
  {SeqOfIds(R) :
     R \in UNION {
       {X \in SUBSET (Q \cup K) : Cardinality(X) = Min(body.size, Cardinality(Q \cup K))} :
       Q \in QueryMatchSets(body, stored), K \in KnnMatchSets(body, withVector)}}

\* Without the try/except around the steps the exception reaches the caller.
HybridSearchResult_NoCatch(clientNow, failAt, hits) ==
  IF clientNow = None THEN [raised |-> FALSE, ret |-> <<>>]
  ELSE IF failAt # "none" THEN [raised |-> TRUE, ret |-> <<>>]
  ELSE [raised |-> FALSE, ret |-> hits]

\* What hybrid_search returns: [] without a client, [] when a step raised
\* (failAt names the step), else the parsed hits.
HybridSearchResult(clientNow, failAt, hits) ==
  IF clientNow = None THEN [raised |-> FALSE, ret |-> <<>>]
  ELSE IF failAt # "none" THEN [raised |-> FALSE, ret |-> <<>>]
  ELSE [raised |-> FALSE, ret |-> hits]

\* helpers.bulk with raise_on_error left at its default (True): the first
\* rejected document raises BulkIndexError.
HelpersBulk_RaiseOnError(documents, rejected) ==
  IF rejected # {}
  THEN [raised |-> TRUE, success |-> 0, failed |-> {}]
  ELSE [raised |-> FALSE, success |-> Len(documents), failed |-> {}]

\* helpers.bulk(client, actions, raise_on_error=False, raise_on_exception=False):
\* (number of documents written, the error items of the rejected ones).
HelpersBulk(documents, rejected) ==
  [raised |-> FALSE,
   success |-> Cardinality({i \in DOMAIN documents : documents[i] \notin rejected}),
   failed |-> {documents[i] : i \in {j \in DOMAIN documents : documents[j] \in rejected}}]

\* Requests of the search path: SearchQuery objects that passed validation.
EngineQueries ==
  {q \in {QueryArgs(districts, minp, maxp, mina, maxa, None, None, topk) :
            districts \in {None, Some(<<"songpagu", "mapogu">>)},
            minp \in {None, Some(1), Some(MaxVal)},
            maxp \in {None, Some(1), Some(MaxVal)},
            mina \in {None, Some(1)},
            maxa \in {None, Some(1)},
            topk \in {TopKMin, TopKDefault}}
          \cup {[QueryArgs(None, None, None, None, None, None, None, TopKDefault)
                   EXCEPT !.natural_query = Some(<<"q">>)]} :
     ~NewSearchQuery(q).raised}

EngineInit == client = None /\ esMapping = "none" /\ esDocs = <<>> /\ call = NoCall

\* A client kept only when a probe succeeded.
Connect_ClientOnSuccess ==
  /\ call = NoCall
  /\ \E firstOk \in 1..(MaxRetriesDefault + 1) :
       /\ client' = IF firstOk <= MaxRetriesDefault THEN Connected ELSE client
       /\ call' = [op |-> "connect",
                   ret |-> (firstOk <= MaxRetriesDefault),
                   raised |-> FALSE,
                   probes |-> Min(firstOk, MaxRetriesDefault),
                   sleeps |-> Min(firstOk, MaxRetriesDefault) - 1]
  /\ UNCHANGED <<esMapping, esDocs, isLoaded, encCall, parserVars, queryVars, mergeVars, toolVars, procVars>>

\* engine.connect(): the client is created first; the probe is then tried up
\* to max_retries times, sleeping between two attempts.  firstOk is the
\* attempt at which the probe first succeeds (max_retries + 1: never).
Connect ==
  /\ call = NoCall
  /\ client' = Connected
  /\ \E firstOk \in 1..(MaxRetriesDefault + 1) :
       call' = [op |-> "connect",
                ret |-> (firstOk <= MaxRetriesDefault),
                raised |-> FALSE,
                probes |-> Min(firstOk, MaxRetriesDefault),
                sleeps |-> Min(firstOk, MaxRetriesDefault) - 1]
  /\ UNCHANGED <<esMapping, esDocs, isLoaded, encCall, parserVars, queryVars, mergeVars, toolVars, procVars>>

\* The existence test left out of the delete: an existing index is always
\* dropped.
DeletesExisting_Always(delete_existing, exists) == exists

\* `if delete_existing and self.client.indices.exists(index=index_name)`
DeletesExisting(delete_existing, exists) == delete_existing /\ exists

\* `if not self.client.indices.exists(index=index_name)`, after the delete.
CreatesIndex(delete_existing, exists) ==
  DeletesExisting(delete_existing, exists) \/ ~exists

\* engine.create_index(delete_existing).  backend: "ok", "unreachable" (the
\* first backend call raises a connection error, which is not a RequestError
\* and is not caught) or "request_error" (the create call is refused).
\* deleted, created: indices.delete / indices.create was carried out;
\* refused: indices.create raised RequestError.
CreateIndex ==
  /\ call = NoCall
  /\ \E delete_existing \in BOOLEAN, backend \in {"ok", "unreachable", "request_error"} :
       LET deleted == DeletesExisting(delete_existing, esMapping # "none")
           creates == CreatesIndex(delete_existing, esMapping # "none")
       IN
       IF client = None
       THEN /\ call' = [op |-> "create_index", delete_existing |-> delete_existing,
                        connected |-> FALSE,
                        ret |-> FALSE, raised |-> FALSE, refused |-> FALSE,
                        deleted |-> FALSE, created |-> FALSE]
            /\ UNCHANGED <<esMapping, esDocs>>
       ELSE IF backend = "unreachable"
       THEN /\ call' = [op |-> "create_index", delete_existing |-> delete_existing,
                        connected |-> TRUE,
                        ret |-> FALSE, raised |-> TRUE, refused |-> FALSE,
                        deleted |-> FALSE, created |-> FALSE]
            /\ UNCHANGED <<esMapping, esDocs>>
       ELSE IF creates /\ backend = "request_error"
       THEN /\ call' = [op |-> "create_index", delete_existing |-> delete_existing,
                        connected |-> TRUE,
                        ret |-> FALSE, raised |-> FALSE, refused |-> TRUE,
                        deleted |-> deleted, created |-> FALSE]
            /\ esMapping' = "none"
            /\ esDocs' = <<>>
       ELSE /\ call' = [op |-> "create_index", delete_existing |-> delete_existing,
                        connected |-> TRUE,
                        ret |-> TRUE, raised |-> FALSE, refused |-> FALSE,
                        deleted |-> deleted, created |-> creates]
            /\ esMapping' = IF creates THEN "explicit" ELSE esMapping
            /\ esDocs' = IF creates THEN <<>> ELSE esDocs
  /\ UNCHANGED <<client, isLoaded, encCall, parserVars, queryVars, mergeVars, toolVars, procVars>>

\* The failure list of helpers.bulk taken for something that is not a list.
BulkCounts_FailedNotList(n, res) == <<res.success, 0>>

\* (success_count, fail_count) of bulk_index_documents over n documents once
\* helpers.bulk was called with result res: `success_count = success`,
\* `fail_count = len(failed)`; an exception leaves 0 and sets fail_count = n.
BulkCounts(n, res) ==
  IF res.raised THEN <<0, n>> ELSE <<res.success, Cardinality(res.failed)>>

\* The outcomes of engine.bulk_index_documents(documents, gen, batch_size) in
\* the current state: the call record and the model and backend state left
\* behind.  documents: the corpus documents S by id; bad: those with an
\* invalid field; gen: generate_embeddings.
BulkOutcomes(S, bad, gen, batch_size) ==
  LET documents == SeqOfIds(S) IN
  IF client = None
  THEN {[call |-> [op |-> "bulk_index_documents", documents |-> documents,
                   bad |-> bad, connected |-> FALSE, reached |-> FALSE,
                   embed_raised |-> FALSE,
                   rejected |-> {}, raised |-> FALSE,
                   ret |-> <<0, Len(documents)>>],
         loaded |-> isLoaded, mapping |-> esMapping, docs |-> esDocs]}
  ELSE
    {LET enc == IF gen
                THEN EncodeOutcome(isLoaded, o.loadOk, documents, batch_size, o.failed)
                ELSE [raised |-> FALSE, vecs |-> <<>>, loaded |-> isLoaded]
         \* encode raised, or the bulk request raised a transport error:
         \* the try block ends in the except clause
         aborted == enc.raised \/ ~o.reachable
         dimOf(d) == enc.vecs[CHOOSE i \in DOMAIN documents : documents[i] = d].dim
         rejected == {d \in S : \/ d \in bad
                                \/ /\ gen
                                   /\ esMapping = "explicit"
                                   /\ dimOf(d) # IndexDims}
         res == HelpersBulk(documents, rejected)
     IN
     IF aborted
     THEN [call |-> [op |-> "bulk_index_documents", documents |-> documents,
                     bad |-> bad, connected |-> TRUE, reached |-> FALSE,
                     embed_raised |-> enc.raised,
                     rejected |-> {}, raised |-> FALSE,
                     ret |-> <<0, Len(documents)>>],
           loaded |-> enc.loaded, mapping |-> esMapping, docs |-> esDocs]
     ELSE [call |-> [op |-> "bulk_index_documents", documents |-> documents,
                     bad |-> bad, connected |-> TRUE, reached |-> TRUE,
                     embed_raised |-> FALSE,
                     rejected |-> rejected, raised |-> FALSE,
                     ret |-> BulkCounts(Len(documents), res)],
           loaded |-> enc.loaded,
           mapping |-> IF esMapping = "none" /\ S # {} THEN "dynamic" ELSE esMapping,
           docs |-> [d \in DOMAIN esDocs \cup (S \ rejected) |->
                       IF d \in S \ rejected
                       THEN (IF gen THEN "vec" ELSE "novec")
                       ELSE esDocs[d]]] :
     o \in [loadOk : {b \in BOOLEAN : b \/ (gen /\ ~isLoaded)},
            failed : SUBSET (IF gen THEN 1..NumBatches(Len(documents), batch_size)
                             ELSE {}),
            reachable : BOOLEAN]}

\* engine.bulk_index_documents(documents, generate_embeddings, batch_size).
BulkIndexDocuments ==
  /\ call = NoCall
  /\ \E S \in SUBSET DocIds, gen \in BOOLEAN, batch_size \in 1..MaxBatch :
     \E bad \in SUBSET S : \E out \in BulkOutcomes(S, bad, gen, batch_size) :
       /\ call' = out.call
       /\ isLoaded' = out.loaded
       /\ esMapping' = out.mapping
       /\ esDocs' = out.docs
  /\ UNCHANGED <<client, encCall, parserVars, queryVars, mergeVars, toolVars, procVars>>

\* The outcomes of engine.hybrid_search(query) in the current state: the call
\* record and the model's loaded flag.  backend: "ok", "search_error" (the
\* search call raises) or "parse_error" (the response lacks a key the parser
\* reads).  search_text is the text given to encode_single; body is
\* search_body, None when it was never built.
HybridSearchOutcomes(query) ==
  IF client = None
  THEN {[loaded |-> isLoaded,
         call |-> [op |-> "hybrid_search", query |-> query, connected |-> FALSE,
                   failAt |-> "none",
                   search_text |-> None, body |-> None,
                   raised |-> HybridSearchResult(client, "none", <<>>).raised,
                   ret |-> HybridSearchResult(client, "none", <<>>).ret]]}
  ELSE
    UNION {
      LET enc == EncodeOutcome(isLoaded, loadOk, <<BuildSearchText(query)>>,
                               DefaultBatchSize, IF batchFails THEN {1} ELSE {})
          body == SearchBody(query, enc.vecs[1])
          searchFails == \/ backend = "search_error"
                         \/ esMapping = "none"
                         \/ esMapping = "explicit" /\ enc.vecs[1].dim # IndexDims
          failAt == IF enc.raised THEN "embed"
                    ELSE IF searchFails THEN "search"
                    ELSE IF backend = "parse_error" THEN "parse"
                    ELSE "none"
          stored == DOMAIN esDocs
          withVector == {d \in stored : esDocs[d] = "vec"}
      IN {[loaded |-> enc.loaded,
           call |-> [op |-> "hybrid_search", query |-> query, connected |-> TRUE,
                     failAt |-> failAt,
                     search_text |-> Some(BuildSearchText(query)),
                     body |-> IF enc.raised THEN None ELSE Some(body),
                     raised |-> HybridSearchResult(client, failAt, hits).raised,
                     ret |-> HybridSearchResult(client, failAt, hits).ret]] :
            hits \in (IF failAt = "none"
                      THEN SearchResponses(body, stored, withVector)
                      ELSE {<<>>})} :
      loadOk \in {b \in BOOLEAN : b \/ ~isLoaded}, batchFails \in BOOLEAN,
      backend \in {"ok", "search_error", "parse_error"}}

\* engine.hybrid_search(query) for the requests of the search path.
HybridSearch ==
  /\ call = NoCall
  /\ \E query \in EngineQueries : \E out \in HybridSearchOutcomes(query) :
       call' = out.call /\ isLoaded' = out.loaded
  /\ UNCHANGED <<client, esMapping, esDocs, encCall, parserVars, queryVars, mergeVars, toolVars, procVars>>

\* The caller takes the result of the operation.
EngineReturn ==
  /\ call # NoCall
  /\ call' = NoCall
  /\ UNCHANGED <<client, esMapping, esDocs, isLoaded, encCall,
                 parserVars, queryVars, mergeVars, toolVars, procVars>>

Init == EngineInit /\ isLoaded = FALSE /\ encCall = NoCall
        /\ ParserIdle /\ QueryIdle /\ MergeIdle /\ ToolIdle /\ ProcIdle
Next == Connect \/ CreateIndex \/ BulkIndexDocuments \/ HybridSearch \/ EngineReturn
Spec == Init /\ [][Next]_vars

\* hybrid_search, the request it builds --------------------------------------
\* Requests whose text sources and fusion weight vary: SearchQuery objects
\* that passed validation.  A keyword list may hold an empty string (the
\* field has no validator).
TextQueries ==
  {q \in {[QueryArgs(districts, minp, None, None, None, None, None, TopKDefault)
             EXCEPT !.natural_query = nq, !.lifestyle_keywords = lk,
                    !.dong = dong, !.hybrid_weight = hw] :
            districts \in {None, Some(<<"songpagu">>)},
            minp \in {None, Some(1)},
            nq \in {None, Some(<<"q">>)},
            lk \in {None, Some(<< <<"yuk", "a">> >>),
                    Some(<< <<"yuk", "a">>, <<"gyo", "tong">> >>), Some(<< <<>> >>)},
            dong \in {None, Some(<<"jam", "sil", "dong">>)},
            hw \in {0, HybridWeightDefault, HybridWeightMax}} :
     ~NewSearchQuery(q).raised}

\* engine.hybrid_search(query) for the requests above.
HybridSearchText ==
  /\ call = NoCall
  /\ \E query \in TextQueries : \E out \in HybridSearchOutcomes(query) :
       call' = out.call /\ isLoaded' = out.loaded
  /\ UNCHANGED <<client, esMapping, esDocs, encCall, parserVars, queryVars, mergeVars, toolVars, procVars>>

\* A connected engine over an index holding the corpus.
InitSearch ==
  /\ client = Connected /\ esMapping = "explicit"
  /\ esDocs = [d \in DocIds |-> "vec"]
  /\ call = NoCall
  /\ isLoaded \in BOOLEAN /\ encCall = NoCall
  /\ ParserIdle /\ QueryIdle /\ MergeIdle /\ ToolIdle /\ ProcIdle
NextSearch == HybridSearchText \/ EngineReturn
SpecSearch == InitSearch /\ [][NextSearch]_vars

\* A hybrid_search call that built its request body.
BuiltBody == call.op = "hybrid_search" /\ call.body # None

\* C21: the boosts of the keyword part and of the kNN part of the request
\* follow the query's hybrid_weight: weight 0 gives a kNN boost of 0, the
\* largest weight gives a keyword boost of 0.
C21_WeightDrivesBoosts ==
  BuiltBody =>
    /\ call.query.hybrid_weight = 0 => call.body[1].knn.boost = 0
    /\ call.query.hybrid_weight = HybridWeightMax => call.body[1].should_boost = 0

\* The boosts of the match clauses of a should list on one field for one text.
Boosts(should, field, text) ==
  {should[i].boost : i \in {j \in DOMAIN should :
      should[j].kind = "match" /\ should[j].field = field /\ should[j].query = text}}

Above(A, B) == \A a \in A, b \in B : a > b

\* C22: in the should clauses of a request the free-text boosts fall strictly
\* from combined_review to kapt_name to pros to doro_juso to cons, and both
\* lifestyle boosts are strictly above the free-text combined_review boost.
C22_BoostLadder ==
  (BuiltBody /\ Truthy(call.query.natural_query)) =>
    LET should == call.body[1].should
        nat == call.query.natural_query[1]
        B(f) == Boosts(should, f, nat)
    IN /\ Above(B("combined_review"), B("kapt_name"))
       /\ Above(B("kapt_name"), B("pros"))
       /\ Above(B("pros"), B("doro_juso"))
       /\ Above(B("doro_juso"), B("cons"))
       /\ Truthy(call.query.lifestyle_keywords) =>
            LET life == JoinSpace(call.query.lifestyle_keywords[1])
            IN /\ Above(Boosts(should, "combined_review", life), B("combined_review"))
               /\ Above(Boosts(should, "pros", life), B("combined_review"))

\* C23: a hybrid search whose query has neither natural_query nor
\* lifestyle_keywords embeds the fallback text, and the text given to the
\* embedding model is never empty.
C23_FallbackText ==
  (call.op = "hybrid_search" /\ call.search_text # None) =>
    /\ (~Truthy(call.query.natural_query) /\ ~Truthy(call.query.lifestyle_keywords))
         => call.search_text[1] = FallbackSearchText
    /\ call.search_text[1] # <<>>

\* The remaining operations of the engine -----------------------------------
\* engine.get_document(doc_id): the stored document, None when there is no
\* client, no such document, or the backend call raises.
GetDocument ==
  /\ call = NoCall
  /\ \E doc_id \in DocIds, backend \in {"ok", "error"} :
       call' = [op |-> "get_document", doc_id |-> doc_id,
                connected |-> client # None, raised |-> FALSE,
                ret |-> IF client # None /\ backend = "ok" /\ doc_id \in DOMAIN esDocs
                        THEN Some(doc_id) ELSE None]
  /\ UNCHANGED <<client, esMapping, esDocs, isLoaded, encCall,
                 parserVars, queryVars, mergeVars, toolVars, procVars>>

\* engine.delete_index(): False when there is no client or a backend call
\* raises; the index is dropped when it exists.
DeleteIndex ==
  /\ call = NoCall
  /\ \E backend \in {"ok", "error"} :
       IF client # None /\ backend = "ok"
       THEN /\ call' = [op |-> "delete_index", connected |-> TRUE,
                        raised |-> FALSE, ret |-> TRUE]
            /\ esMapping' = "none"
            /\ esDocs' = <<>>
       ELSE /\ call' = [op |-> "delete_index", connected |-> client # None,
                        raised |-> FALSE, ret |-> FALSE]
            /\ UNCHANGED <<esMapping, esDocs>>
  /\ UNCHANGED <<client, isLoaded, encCall, parserVars, queryVars, mergeVars, toolVars, procVars>>

\* engine.get_index_stats(): the document count, or the empty dict (None)
\* when there is no client, no index, or the backend call raises.
GetIndexStats ==
  /\ call = NoCall
  /\ \E backend \in {"ok", "error"} :
       call' = [op |-> "get_index_stats",
                connected |-> client # None, raised |-> FALSE,
                ret |-> IF client # None /\ backend = "ok" /\ esMapping # "none"
                        THEN Some([doc_count |-> Cardinality(DOMAIN esDocs)])
                        ELSE None]
  /\ UNCHANGED <<client, esMapping, esDocs, isLoaded, encCall,
                 parserVars, queryVars, mergeVars, toolVars, procVars>>

\* C27: whatever the outcome of bulk_index_documents (no client, embedding
\* failure, backend exception, partial rejection, full success), the two
\* counts it returns are not negative and add up to the number of documents.
C27_BulkCountsSum ==
  call.op = "bulk_index_documents" =>
    /\ call.ret[1] >= 0 /\ call.ret[2] >= 0
    /\ call.ret[1] + call.ret[2] = Len(call.documents)

\* The backend stored some documents of the request and rejected others.
C27_Witness ==
  /\ call.op = "bulk_index_documents" /\ call.reached
  /\ call.rejected # {} /\ call.ret[1] > 0

\* A caller of the engine ------------------------------------------------------
\* connect calls a caller makes.
MaxConnects == 2
\* Default of bulk_index_documents' batch_size.
BulkBatchSizeDefault == 100

\* A program holding a fresh engine; connect_rets: what its connect calls
\* have returned so far.
CallerInit ==
  /\ EngineInit
  /\ job = [op |-> "caller", connect_rets |-> <<>>]
  /\ threads = NoCall

Caller == job.op = "caller"

CallerConnect == Caller /\ Len(job.connect_rets) < MaxConnects /\ Connect
CallerCreateIndex == Caller /\ CreateIndex

\* engine.bulk_index_documents(corpus, generate_embeddings) with the default
\* batch size.
CallerBulk ==
  /\ Caller /\ call = NoCall
  /\ \E gen \in BOOLEAN : \E out \in BulkOutcomes(DocIds, {}, gen, BulkBatchSizeDefault) :
       /\ call' = out.call
       /\ isLoaded' = out.loaded
       /\ esMapping' = out.mapping
       /\ esDocs' = out.docs
  /\ UNCHANGED <<client, encCall, parserVars, queryVars, mergeVars, toolVars, procVars>>

\* engine.hybrid_search(SearchQuery()) and a search with a district filter.
CallerSearch ==
  /\ Caller /\ call = NoCall
  /\ \E districts \in {None, Some(<<"songpagu">>)} :
     \E out \in HybridSearchOutcomes(
                 QueryArgs(districts, None, None, None, None, None, None, TopKDefault)) :
       call' = out.call /\ isLoaded' = out.loaded
  /\ UNCHANGED <<client, esMapping, esDocs, encCall, parserVars, queryVars, mergeVars, toolVars, procVars>>

CallerGetDocument == Caller /\ GetDocument
CallerDeleteIndex == Caller /\ DeleteIndex
CallerStats == Caller /\ GetIndexStats

\* The caller takes the result of the operation.
CallerStep ==
  /\ Caller /\ call # NoCall
  /\ job' = IF call.op = "connect"
            THEN [job EXCEPT !.connect_rets = Append(@, call.ret)]
            ELSE job
  /\ call' = NoCall
  /\ UNCHANGED <<client, esMapping, esDocs, isLoaded, encCall, threads,
                 parserVars, queryVars, mergeVars, toolVars>>

InitCaller == CallerInit /\ EncIdle /\ ParserIdle /\ QueryIdle /\ MergeIdle /\ ToolIdle
NextCaller ==
  \/ CallerConnect \/ CallerCreateIndex \/ CallerBulk \/ CallerSearch
  \/ CallerGetDocument \/ CallerDeleteIndex \/ CallerStats \/ CallerStep
SpecCaller == InitCaller /\ [][NextCaller]_vars

\* The operations that begin with `if not self.client:`.
GuardedOps ==
  {"create_index", "bulk_index_documents", "hybrid_search", "get_document",
   "delete_index", "get_index_stats"}

\* connect has been called (the running call has created the client already).
ConnectCalled == job.connect_rets # <<>> \/ call.op = "connect"

\* The embedding step of the operation raised before its backend call.
EmbedRaised(c) ==
  \/ c.op = "hybrid_search" /\ c.failAt = "embed"
  \/ c.op = "bulk_index_documents" /\ c.embed_raised

\* C30: client is None until connect is first called and never None after,
\* whatever the probes did; once connect has been called (also when it
\* returned False) the guard of a guarded operation does not fire and the
\* operation makes its backend call.
C30_ClientSetByConnect ==
  Caller =>
    /\ client # None <=> ConnectCalled
    /\ (call.op \in GuardedOps /\ ConnectCalled) =>
         (call.connected /\ ~EmbedRaised(call))

\* C30, amended: client is None until connect is first called and never None
\* after, whatever the probes did; once connect has been called (also when it
\* returned False) the guard of a guarded operation does not fire.  The
\* operation then makes its backend call unless it is a hybrid_search or a
\* bulk_index_documents whose embedding step raised first.
C30_GuardsOffAfterConnect ==
  Caller =>
    /\ client # None <=> ConnectCalled
    /\ (call.op \in GuardedOps /\ ConnectCalled) => call.connected

\* An operation went past its guard on an engine whose connect calls all
\* returned False.
C30_Witness ==
  /\ Caller /\ job.connect_rets # <<>>
  /\ \A i \in DOMAIN job.connect_rets : ~job.connect_rets[i]
  /\ call.op \in GuardedOps /\ call.connected /\ ~EmbedRaised(call)

\* indexer.index_data -------------------------------------------------------
\* batch_size passed by index_data to bulk_index_documents.
IndexBatchSize == 50

\* The engine calls of index_data in the order of its statements.
IndexDataOrder ==
  <<"connect", "create_index", "bulk_index_documents", "get_index_stats">>

\* A job that goes on to its next statement whatever the call returned.
AfterCall_NoGate(pc, c) ==
  IF pc = "connect" THEN "create_index"
  ELSE IF pc = "create_index" THEN "bulk_index_documents"
  ELSE IF pc = "bulk_index_documents" THEN "get_index_stats"
  ELSE "done"

\* Where index_data goes after the call at pc ended with record c: an
\* exception of the call leaves index_data; `if not engine.connect(): return`,
\* `if not engine.create_index(...): return`.
AfterCall(pc, c) ==
  IF c.raised THEN "raised"
  ELSE IF pc = "connect" THEN (IF c.ret THEN "create_index" ELSE "done")
  ELSE IF pc = "create_index" THEN (IF c.ret THEN "bulk_index_documents" ELSE "done")
  ELSE IF pc = "bulk_index_documents" THEN "get_index_stats"
  ELSE "done"

\* index_data(documents, config) starts: engine = SearchEngine(config).  The
\* backend holds no index or the index of an earlier run.
IndexDataInit ==
  /\ client = None /\ call = NoCall
  /\ \/ esMapping = "none" /\ esDocs = <<>>
     \/ esMapping = "explicit" /\ esDocs = [d \in DocIds |-> "vec"]
  /\ job = [op |-> "index_data", pc |-> "connect", calls |-> <<>>]
  /\ threads = NoCall

IndexDataAt(pc) == job.op = "index_data" /\ job.pc = pc /\ call = NoCall

\* engine.connect()
IndexDataConnect == IndexDataAt("connect") /\ Connect

\* engine.create_index(delete_existing=True)
IndexDataCreateIndex ==
  IndexDataAt("create_index") /\ CreateIndex /\ call'.delete_existing

\* engine.bulk_index_documents(documents, generate_embeddings=True, batch_size=50)
IndexDataBulk ==
  /\ IndexDataAt("bulk_index_documents")
  /\ \E S \in SUBSET DocIds : \E bad \in SUBSET S :
     \E out \in BulkOutcomes(S, bad, TRUE, IndexBatchSize) :
       /\ call' = out.call
       /\ isLoaded' = out.loaded
       /\ esMapping' = out.mapping
       /\ esDocs' = out.docs
  /\ UNCHANGED <<client, encCall, parserVars, queryVars, mergeVars, toolVars, procVars>>

\* engine.get_index_stats()
IndexDataStats == IndexDataAt("get_index_stats") /\ GetIndexStats

\* index_data takes the result of the call it made and goes on.
IndexDataStep ==
  /\ job.op = "index_data" /\ call # NoCall
  /\ job' = [job EXCEPT !.calls = Append(@, [op |-> call.op, ret |-> call.ret]),
                        !.pc = AfterCall(job.pc, call)]
  /\ call' = NoCall
  /\ UNCHANGED <<client, esMapping, esDocs, isLoaded, encCall, threads,
                 parserVars, queryVars, mergeVars, toolVars>>

InitIndexData == IndexDataInit /\ EncIdle /\ ParserIdle /\ QueryIdle /\ MergeIdle /\ ToolIdle
NextIndexData ==
  \/ IndexDataConnect \/ IndexDataCreateIndex \/ IndexDataBulk \/ IndexDataStats
  \/ IndexDataStep
SpecIndexData == InitIndexData /\ [][NextIndexData]_vars

\* The engine operations index_data has called so far, the one running
\* included.
IndexDataCalled ==
  [i \in DOMAIN job.calls |-> job.calls[i].op]
  \o (IF call # NoCall THEN <<call.op>> ELSE <<>>)

IsPrefix(s, t) == Len(s) <= Len(t) /\ \A i \in DOMAIN s : s[i] = t[i]

\* C24: index_data calls connect, create_index(delete_existing=True),
\* bulk_index_documents and get_index_stats in this order, each at most once;
\* nothing is called after a connect that returned False, and nothing after a
\* create_index that returned False.
C24_IndexDataOrder ==
  job.op = "index_data" =>
    /\ IsPrefix(IndexDataCalled, IndexDataOrder)
    /\ (call # NoCall /\ call.op = "create_index") => call.delete_existing
    /\ \A i \in DOMAIN job.calls :
         (i \in {1, 2} /\ ~job.calls[i].ret) => Len(IndexDataCalled) = i

\* index_data ended after create_index returned False.
C24_Witness ==
  /\ job.op = "index_data" /\ job.pc = "done"
  /\ Len(job.calls) = 2 /\ job.calls[1].ret /\ ~job.calls[2].ret

\* EmbeddingModel.encode on two threads -------------------------------------
\* Threads sharing one EmbeddingModel, and the encode calls each makes.
EncodeThreads == {1, 2}
MaxEncodeCalls == 2

\* Two threads about to make their first encode call on a fresh model.
\* loads: how many times the tokenizer and the weights were loaded;
\* left: the encode calls a thread has yet to start.
ThreadsInit ==
  /\ isLoaded = FALSE /\ encCall = NoCall
  /\ threads = [op |-> "encode",
                pc |-> [t \in EncodeThreads |-> "encode"],
                left |-> [t \in EncodeThreads |-> MaxEncodeCalls - 1],
                loads |-> 0]
  /\ job = NoCall

ThreadAt(t, pc) == threads.op = "encode" /\ threads.pc[t] = pc

Goto(t, pc) == [threads EXCEPT !.pc[t] = pc]

ThreadFrame ==
  UNCHANGED <<encCall, job, engineVars, parserVars, queryVars, mergeVars, toolVars>>

\* encode: `if not self._is_loaded: self.load()`
EncodeTest(t) ==
  /\ ThreadAt(t, "encode")
  /\ threads' = Goto(t, IF isLoaded THEN "batches" ELSE "load")
  /\ UNCHANGED isLoaded /\ ThreadFrame

\* load: `if self._is_loaded: return`
LoadTest(t) ==
  /\ ThreadAt(t, "load")
  /\ threads' = Goto(t, IF isLoaded THEN "batches" ELSE "from_pretrained")
  /\ UNCHANGED isLoaded /\ ThreadFrame

\* load: the try block; from_pretrained raises, or the tokenizer and the
\* weights are loaded and _is_loaded is set.
LoadWeights(t) ==
  /\ ThreadAt(t, "from_pretrained")
  /\ \E ok \in BOOLEAN :
       IF ok
       THEN /\ threads' = [Goto(t, "batches") EXCEPT !.loads = @ + 1]
            /\ isLoaded' = TRUE
       ELSE /\ threads' = Goto(t, "raised")
            /\ UNCHANGED isLoaded
  /\ ThreadFrame

\* encode: the batch loop and the return.
EncodeBatches(t) ==
  /\ ThreadAt(t, "batches")
  /\ threads' = Goto(t, "returned")
  /\ UNCHANGED isLoaded /\ ThreadFrame

\* The thread makes its next encode call.
EncodeAgain(t) ==
  /\ threads.op = "encode" /\ threads.pc[t] \in {"returned", "raised"}
  /\ threads.left[t] > 0
  /\ threads' = [Goto(t, "encode") EXCEPT !.left[t] = @ - 1]
  /\ UNCHANGED isLoaded /\ ThreadFrame

InitThreads ==
  ThreadsInit /\ EngineIdle /\ ParserIdle /\ QueryIdle /\ MergeIdle /\ ToolIdle
NextThreads ==
  \E t \in EncodeThreads :
    \/ EncodeTest(t) \/ LoadTest(t) \/ LoadWeights(t) \/ EncodeBatches(t)
    \/ EncodeAgain(t)
SpecThreads == InitThreads /\ [][NextThreads]_vars

\* C25: the tokenizer and the weights of one EmbeddingModel are loaded at
\* most once, whatever the interleaving of the encode calls of two threads,
\* and not again once _is_loaded is set.
C25_LoadedOnce == threads.op = "encode" => threads.loads <= 1

\* connect, statement by statement ------------------------------------------
\* Default of connect's retry_delay.
RetryDelayDefault == 5
\* Largest max_retries passed explicitly (the default is tried as well).
MaxRetriesArg == 3

MaxRetriesVals == (0..MaxRetriesArg) \cup {MaxRetriesDefault}
RetryDelayVals == {1, RetryDelayDefault}

\* The sleep left unguarded: taken after every failed attempt.
SleepsAfter_Always(attempt, max_retries) == TRUE

\* `if attempt < max_retries - 1: time.sleep(retry_delay)`
SleepsAfter(attempt, max_retries) == attempt < max_retries - 1

Connecting == call # NoCall /\ call.op = "connect_steps"

\* connect(max_retries, retry_delay) up to the loop: the client is created.
\* trace lists what the call has done: "ok" and "fail" are probes
\* (self.client.info()), "sleep" is time.sleep(retry_delay).
ConnectBegin ==
  /\ call = NoCall
  /\ client' = Connected
  /\ \E max_retries \in MaxRetriesVals, retry_delay \in RetryDelayVals :
       call' = [op |-> "connect_steps", pc |-> "loop",
                max_retries |-> max_retries, retry_delay |-> retry_delay,
                attempt |-> 0, trace |-> <<>>, waited |-> 0, ret |-> FALSE]
  /\ UNCHANGED <<esMapping, esDocs, isLoaded, encCall, parserVars, queryVars, mergeVars, toolVars, procVars>>

\* One pass of `for attempt in range(max_retries)`: the probe returns (return
\* True) or raises (caught; sleep next unless this was the last attempt).
ConnectProbe ==
  /\ Connecting /\ call.pc = "loop" /\ call.attempt < call.max_retries
  /\ \E ok \in BOOLEAN :
       call' = IF ok
               THEN [call EXCEPT !.trace = Append(@, "ok"), !.pc = "done", !.ret = TRUE]
               ELSE IF SleepsAfter(call.attempt, call.max_retries)
               THEN [call EXCEPT !.trace = Append(@, "fail"), !.pc = "sleep"]
               ELSE [call EXCEPT !.trace = Append(@, "fail"), !.attempt = @ + 1]
  /\ UNCHANGED <<client, esMapping, esDocs, isLoaded, encCall,
                 parserVars, queryVars, mergeVars, toolVars, procVars>>

\* time.sleep(retry_delay), then the next pass.
ConnectSleep ==
  /\ Connecting /\ call.pc = "sleep"
  /\ call' = [call EXCEPT !.trace = Append(@, "sleep"),
                          !.waited = @ + call.retry_delay,
                          !.attempt = @ + 1, !.pc = "loop"]
  /\ UNCHANGED <<client, esMapping, esDocs, isLoaded, encCall,
                 parserVars, queryVars, mergeVars, toolVars, procVars>>

\* The loop is exhausted: return False.
ConnectGiveUp ==
  /\ Connecting /\ call.pc = "loop" /\ call.attempt >= call.max_retries
  /\ call' = [call EXCEPT !.pc = "done", !.ret = FALSE]
  /\ UNCHANGED <<client, esMapping, esDocs, isLoaded, encCall,
                 parserVars, queryVars, mergeVars, toolVars, procVars>>

\* The caller takes the result.
ConnectEnd ==
  /\ Connecting /\ call.pc = "done"
  /\ call' = NoCall
  /\ UNCHANGED <<client, esMapping, esDocs, isLoaded, encCall,
                 parserVars, queryVars, mergeVars, toolVars, procVars>>

ConnectStep == ConnectProbe \/ ConnectSleep \/ ConnectGiveUp

NextConnect == ConnectBegin \/ ConnectProbe \/ ConnectSleep \/ ConnectGiveUp \/ ConnectEnd
\* A call that has started keeps running: its next statement is eventually
\* executed.
SpecConnect == Init /\ [][NextConnect]_vars /\ WF_vars(ConnectStep)

\* The probes of a trace.
Probes(trace) == SelectSeq(trace, LAMBDA e : e \in {"ok", "fail"})
Sleeps(trace) == SelectSeq(trace, LAMBDA e : e = "sleep")

\* What holds of a connect call at every moment, and of its result when it
\* has returned.
ConnectSafe ==
  Connecting =>
    LET t == call.trace
        n == Len(Probes(t))
    IN /\ n <= call.max_retries
       /\ \A i \in DOMAIN t : t[i] = "ok" => i = Len(t)
       /\ \A i \in DOMAIN t :
            /\ t[i] = "sleep" => (i > 1 /\ t[i - 1] = "fail")
            /\ (t[i] = "fail" /\ i < Len(t)) => t[i + 1] = "sleep"
       /\ call.waited = Len(Sleeps(t)) * call.retry_delay
       /\ call.pc = "done" =>
            /\ t = <<>> \/ t[Len(t)] # "sleep"
            /\ call.ret = (t # <<>> /\ t[Len(t)] = "ok")
            /\ ~call.ret => (n = call.max_retries
                              /\ \A i \in DOMAIN t : t[i] # "ok")
            /\ Len(Sleeps(t)) = (IF n = 0 THEN 0 ELSE n - 1)

\* C12: connect(max_retries, retry_delay) terminates; it probes at most
\* max_retries times, returns True at the first successful probe and probes
\* no more, returns False only after max_retries failed probes in a row, and
\* sleeps retry_delay between two consecutive attempts and never after the
\* last one.
C12_ConnectTerminates ==
  /\ []ConnectSafe
  /\ (Connecting /\ call.pc # "done") ~> (Connecting /\ call.pc = "done")

\* The default ten attempts all fail: ten probes, nine sleeps of 5, False.
C12_Witness ==
  /\ Connecting
  /\ call.pc = "done"
  /\ call.max_retries = MaxRetriesDefault
  /\ call.retry_delay = RetryDelayDefault
  /\ ~call.ret
  /\ Len(Probes(call.trace)) = 10
  /\ call.waited = 45

\* custom_tools.py: search_apartment_tool ------------------------------------
\* Default of the tool's top_k.
ToolTopKDefault == 5

\* The arguments of an invocation: bounds of both orders and result caps on
\* both sides of 1..50.
ToolArgs ==
  [districts : {None},
   min_price : {None, Some(1), Some(MaxVal)},
   max_price : {None, Some(1), Some(MaxVal)},
   min_area : {None, Some(1), Some(MaxVal)},
   max_area : {None, Some(1), Some(MaxVal)},
   top_k : {TopKMin - 1, TopKMin, ToolTopKDefault, TopKMax, TopKMax + 1}]

\* SearchQuery(districts=..., min_price=..., ..., top_k=top_k): the keyword
\* arguments the tool passes; the other fields take their defaults.
ToolQueryArgs(a) ==
  QueryArgs(a.districts, a.min_price, a.max_price, a.min_area, a.max_area,
            None, None, a.top_k)

\* The engine fetched ahead of the query's construction.
EngineObtained_First(queryRaised) == TRUE

\* `engine = get_search_engine()` comes after `query = SearchQuery(...)` in
\* the try block: it is reached only when the construction did not raise.
EngineObtained(queryRaised) == ~queryRaised

\* An engine made at every call, whether or not the module holds one.
EngineCreated_Always(obtained, cached) == obtained

\* get_search_engine(): `if _search_engine is None:` guards the construction
\* of the SearchEngine and its connect() call.
EngineCreated(obtained, cached) == obtained /\ cached = None

\* The JSON the tool returns: status and the apartments listed.
ToolResponse(raised, results, top_k) ==
  IF raised THEN [status |-> "error", apartments |-> <<>>]
  ELSE IF results = <<>> THEN [status |-> "no_results", apartments |-> <<>>]
  ELSE [status |-> "success",
        apartments |-> SubSeq(results, 1, Min(top_k, Len(results)))]

\* search_apartment_tool(...).  get_search_engine() creates and connects the
\* module's engine on first use (firstOk: the attempt at which the probe
\* succeeds); hybrid_search then runs as on any engine with a client.
\* requests counts the calls sent to the backend during the invocation;
\* connect_ret is what the engine's connect() returned when it was made.
SearchApartmentTool ==
  /\ toolCall = NoCall
  /\ \E a \in ToolArgs, firstOk \in {1, 2, MaxRetriesDefault + 1},
        loadOk \in {b \in BOOLEAN : b \/ ~isLoaded}, batchFails \in BOOLEAN,
        backend \in {"ok", "search_error", "parse_error"} :
       LET q == NewSearchQuery(ToolQueryArgs(a))
           obtained == EngineObtained(q.raised)
           created == EngineCreated(obtained, _search_engine)
           probes == IF created THEN Min(firstOk, MaxRetriesDefault) ELSE 0
       IN
       /\ _search_engine' = IF created
                            THEN Some([client |-> Connected,
                                       connect_ret |-> firstOk <= MaxRetriesDefault])
                            ELSE _search_engine
       /\ IF q.raised
          THEN /\ toolCall' = [op |-> "search_apartment_tool", args |-> a,
                               engine_obtained |-> obtained,
                               engine_created |-> created,
                               connect_calls |-> IF created THEN 1 ELSE 0,
                               hybrid_called |-> FALSE,
                               requests |-> probes,
                               response |-> ToolResponse(TRUE, <<>>, a.top_k)]
               /\ UNCHANGED isLoaded
          ELSE
            LET query == q.query
                enc == EncodeOutcome(isLoaded, loadOk, <<BuildSearchText(query)>>,
                                     DefaultBatchSize, IF batchFails THEN {1} ELSE {})
                body == SearchBody(query, enc.vecs[1])
                searchFails == \/ backend = "search_error"
                               \/ esMapping = "none"
                               \/ esMapping = "explicit" /\ enc.vecs[1].dim # IndexDims
                failAt == IF enc.raised THEN "embed"
                          ELSE IF searchFails THEN "search"
                          ELSE IF backend = "parse_error" THEN "parse"
                          ELSE "none"
                stored == DOMAIN esDocs
                withVector == {d \in stored : esDocs[d] = "vec"}
            IN
            /\ isLoaded' = enc.loaded
            /\ \E hits \in (IF failAt = "none"
                            THEN SearchResponses(body, stored, withVector)
                            ELSE {<<>>}) :
                 LET r == HybridSearchResult(Connected, failAt, hits) IN
                 toolCall' = [op |-> "search_apartment_tool", args |-> a,
                              engine_obtained |-> obtained,
                               engine_created |-> created,
                               connect_calls |-> IF created THEN 1 ELSE 0,
                               hybrid_called |-> TRUE,
                              requests |-> probes + (IF enc.raised THEN 0 ELSE 1),
                              response |-> ToolResponse(r.raised, r.ret, a.top_k)]
  /\ UNCHANGED <<encCall, engineVars, parserVars, queryVars, mergeVars, procVars>>

\* The agent takes the tool's answer.
ToolReturn ==
  /\ toolCall # NoCall
  /\ toolCall' = NoCall
  /\ UNCHANGED <<_search_engine, encVars, engineVars, parserVars, queryVars, mergeVars, procVars>>

\* The backend the tool meets: the index created with INDEX_MAPPING, empty or
\* holding the corpus with embeddings.
ToolInit ==
  /\ ToolIdle
  /\ client = None /\ call = NoCall
  /\ esMapping = "explicit"
  /\ esDocs \in {<<>>, [d \in DocIds |-> "vec"]}

InitTool == ToolInit /\ EncIdle /\ ParserIdle /\ QueryIdle /\ MergeIdle /\ ProcIdle
NextTool == SearchApartmentTool \/ ToolReturn
SpecTool == InitTool /\ [][NextTool]_vars

\* C28: a SearchEngine is constructed, and connect called (once), only by a
\* call that finds no engine in the module; the engine made is kept whatever
\* connect returned and is never replaced, so a later call makes no engine,
\* calls no connect and sends no probe.
C28_EngineSingleton ==
  [][(toolCall = NoCall /\ toolCall' # NoCall) =>
       /\ toolCall'.engine_created => (_search_engine = None /\ _search_engine' # None)
       /\ toolCall'.connect_calls = (IF toolCall'.engine_created THEN 1 ELSE 0)
       /\ _search_engine # None =>
            /\ _search_engine' = _search_engine
            /\ ~toolCall'.engine_created /\ toolCall'.connect_calls = 0
            /\ toolCall'.requests <= 1]_vars

\* A later call searched on the engine whose only connect had failed.
C28_Witness ==
  /\ toolCall # NoCall /\ toolCall.hybrid_called /\ ~toolCall.engine_created
  /\ _search_engine # None /\ ~_search_engine[1].connect_ret

\* An inverted price or area range, or a result cap outside 1..50.
Malformed(a) ==
  \/ a.min_price # None /\ a.max_price # None /\ a.min_price[1] > a.max_price[1]
  \/ a.min_area # None /\ a.max_area # None /\ a.min_area[1] > a.max_area[1]
  \/ a.top_k < 1
  \/ a.top_k > 50

\* C19: an invocation of search_apartment_tool with an inverted price or area
\* range or with top_k outside 1..50 obtains no SearchEngine, does not call
\* hybrid_search, sends nothing to the backend and answers with status
\* "error" and an empty apartments list.
C19_RejectedBeforeBackend ==
  (toolCall # NoCall /\ Malformed(toolCall.args)) =>
    /\ ~toolCall.engine_obtained
    /\ ~toolCall.hybrid_called
    /\ toolCall.requests = 0
    /\ toolCall.response.status = "error"
    /\ toolCall.response.apartments = <<>>

\* The first invocation asks for 51 results: refused, and the module still
\* has no engine.
C19_Witness ==
  /\ toolCall # NoCall
  /\ toolCall.args.top_k = 51
  /\ toolCall.args.min_price = None
  /\ toolCall.response.status = "error"
  /\ _search_engine = None

\* A create_index step over an existing index, on an engine with a client,
\* whose backend calls are all served (none raises, the create is not
\* refused).
CreateOverExisting ==
  /\ call = NoCall
  /\ call' # NoCall
  /\ call'.op = "create_index"
  /\ client # None
  /\ esMapping # "none"
  /\ ~call'.raised
  /\ ~call'.refused

ClaimedFilters(query) ==
  LET f == BuildFilterConditions(query) IN
  SelectSeq(f, LAMBDA c : c.field \in {"gu", "price_manwon", "area_m2"})

\* C1: every document returned by hybrid_search over the index created with
\* INDEX_MAPPING satisfies every price, area and district filter the
\* SearchQuery sets, whether it was reached through the keyword clause or
\* through the knn clause.
C1_ResultsPassFilters ==
  (call # NoCall /\ call.op = "hybrid_search" /\ esMapping = "explicit") =>
    \A i \in DOMAIN call.ret : PassesAll(call.ret[i], ClaimedFilters(call.query))

\* C5: on a connected engine whose bulk request reached the backend,
\* bulk_index_documents does not raise and returns (N - k, k) for N submitted
\* documents of which the backend rejected k, and every document that was not
\* rejected is stored.
C5_PartialBulkFailure ==
  (call # NoCall /\ call.op = "bulk_index_documents" /\ call.connected) =>
    /\ ~call.raised
    /\ call.reached =>
         /\ call.bad \subseteq call.rejected
         /\ call.ret = <<Len(call.documents) - Cardinality(call.rejected),
                         Cardinality(call.rejected)>>
         /\ \A i \in DOMAIN call.documents :
              call.documents[i] \notin call.rejected =>
                call.documents[i] \in DOMAIN esDocs

\* One invalid document among all the documents of the corpus: the others
\* are written and the counts are (MaxDocs - 1, 1).
C5_Witness ==
  /\ call # NoCall
  /\ call.op = "bulk_index_documents"
  /\ call.reached
  /\ Len(call.documents) = MaxDocs
  /\ call.bad = {2}
  /\ call.ret = <<MaxDocs - 1, 1>>
  /\ DOMAIN esDocs = DocIds \ {2}

\* C9: hybrid_search never raises, and it returns the empty list when the
\* engine has no client and when a step (embedding the query text, the
\* backend search call, parsing the response) fails.
C9_SearchNeverRaises ==
  (call # NoCall /\ call.op = "hybrid_search") =>
    /\ ~call.raised
    /\ (~call.connected \/ call.failAt # "none") => call.ret = <<>>

\* A search whose backend call failed over a populated index returned [].
C9_Witness ==
  /\ call # NoCall
  /\ call.op = "hybrid_search"
  /\ call.connected
  /\ call.failAt = "search"
  /\ esMapping = "explicit"
  /\ DOMAIN esDocs # {}
  /\ ~call.raised
  /\ call.ret = <<>>

(***************************************************************************)
(* indexer.py: merge_data                                                  *)
(*                                                                         *)
(* A DataFrame is [columns, rows]: the set of column names and the list of *)
(* rows, each row a function from the columns to Optional values (NaN and  *)
(* None are both the null value None).                                     *)
(***************************************************************************)
\* Largest number of rows of the listing master table.
MaxListings == 2

ListingColumns == {"kapt_code", "kapt_name", "doro_juso", "gu"}
ReviewColumns == {"kapt_name", "review_score", "pros", "cons"}
DealColumns == {"kapt_name", "gu", "dong", "price_manwon", "area_m2", "floor",
                "year_built", "price_krw"}

\* pd.DataFrame(): no columns and no rows.
EmptyFrame == [columns |-> {}, rows |-> <<>>]

\* pd.DataFrame(apartments): the columns are the keys of the dicts.
FrameOfRecords(records) ==
  [columns |-> UNION {DOMAIN records[i] : i \in DOMAIN records},
   rows |-> [i \in DOMAIN records |->
               [c \in UNION {DOMAIN records[j] : j \in DOMAIN records} |->
                  IF c \in DOMAIN records[i] THEN records[i][c] ELSE None]]]

\* df.empty: an axis of the frame has length 0.
IsEmpty(df) == df.columns = {} \/ df.rows = <<>>

\* The guard left out: the table is merged whatever it holds.
Mergeable_Always(df) == TRUE

\* `not df.empty and 'kapt_name' in df.columns`
Mergeable(df) == ~IsEmpty(df) /\ "kapt_name" \in df.columns

\* The name pandas gives an overlapping column: the name plus the suffix.
Suffixed(c, suffix) ==
  CASE suffix = "" -> c
    [] c = "gu" /\ suffix = "_deal" -> "gu_deal"
    [] c = "gu" /\ suffix = "_x" -> "gu_x"
    [] c = "gu" /\ suffix = "_y" -> "gu_y"
    [] OTHER -> c

RECURSIVE Flatten(_)
Flatten(lists) == IF lists = <<>> THEN <<>> ELSE Head(lists) \o Flatten(Tail(lists))

\* left.merge(right, on=key, how='left', suffixes=(lsuffix, rsuffix)):
\* KeyError when a frame lacks the key column; else, in the order of the left
\* rows, one row per matching right row, or one row with the right columns
\* null when no right row matches.  Overlapping columns other than the key
\* are renamed with the suffixes.
LeftMerge(left, right, key, lsuffix, rsuffix) ==
  IF key \notin left.columns \/ key \notin right.columns
  THEN [raised |-> TRUE, frame |-> EmptyFrame]
  ELSE
    LET overlap == (left.columns \cap right.columns) \ {key}
        lname(c) == IF c \in overlap THEN Suffixed(c, lsuffix) ELSE c
        rname(c) == IF c \in overlap THEN Suffixed(c, rsuffix) ELSE c
        lcols == {lname(c) : c \in left.columns}
        rcols == {rname(c) : c \in right.columns \ {key}}
        lsrc(n) == CHOOSE c \in left.columns : lname(c) = n
        rsrc(n) == CHOOSE c \in right.columns \ {key} : rname(c) = n
        joined(l, r) == [n \in lcols \cup rcols |->
                           IF n \in lcols THEN l[lsrc(n)] ELSE r[rsrc(n)]]
        padded(l) == [n \in lcols \cup rcols |->
                        IF n \in lcols THEN l[lsrc(n)] ELSE None]
        matches(l) == SelectSeq(right.rows, LAMBDA r : r[key] = l[key])
        out(l) == IF matches(l) = <<>> THEN <<padded(l)>>
                  ELSE [k \in DOMAIN matches(l) |-> joined(l, matches(l)[k])]
    IN [raised |-> FALSE,
        frame |-> [columns |-> lcols \cup rcols,
                   rows |-> Flatten([i \in DOMAIN left.rows |-> out(left.rows[i])])]]

\* merged['gu'] = merged['gu'].fillna(merged['gu_deal']); drop gu_deal
FillGu(df) ==
  IF "gu_deal" \in df.columns
  THEN [columns |-> df.columns \ {"gu_deal"},
        rows |-> [i \in DOMAIN df.rows |->
                    [c \in df.columns \ {"gu_deal"} |->
                       IF c = "gu" /\ df.rows[i]["gu"] = None
                       THEN df.rows[i]["gu_deal"]
                       ELSE df.rows[i][c]]]]
  ELSE df

\* indexer.merge_data(apartments, reviews, deals): the records, or raised.
MergeData(apartments, reviews, deals) ==
  LET apt_df == FrameOfRecords(apartments)
      m1 == IF Mergeable(reviews)
            THEN LeftMerge(apt_df, reviews, "kapt_name", "_x", "_y")
            ELSE [raised |-> FALSE, frame |-> apt_df]
      m2 == IF m1.raised THEN m1
            ELSE IF Mergeable(deals)
            THEN LeftMerge(m1.frame, deals, "kapt_name", "", "_deal")
            ELSE m1
  IN IF m2.raised THEN [raised |-> TRUE, docs |-> <<>>]
     ELSE [raised |-> FALSE, docs |-> FillGu(m2.frame).rows]

\* Inputs -------------------------------------------------------------------
Names == {"apt1", "apt2"}

ListingRow(code, name, gu) ==
  [kapt_code |-> Some(code), kapt_name |-> Some(name),
   doro_juso |-> Some("juso"), gu |-> gu]

ReviewRow(name) ==
  [kapt_name |-> Some(name), review_score |-> Some(4),
   pros |-> Some("pros"), cons |-> Some("cons")]

DealRow(name, gu) ==
  [kapt_name |-> Some(name), gu |-> gu, dong |-> Some("dong"),
   price_manwon |-> Some(100000), area_m2 |-> Some(84), floor |-> Some(10),
   year_built |-> Some(2010), price_krw |-> Some(1000000000)]

RECURSIVE SeqOfNames(_)
\* The names of a set as a list (the aggregated tables hold one row per name).
SeqOfNames(S) ==
  IF S = {} THEN <<>>
  ELSE LET n == CHOOSE x \in S : TRUE IN <<n>> \o SeqOfNames(S \ {n})

ApartmentLists ==
  UNION {{[i \in 1..n |-> ListingRow(i, names[i], gus[i])] :
            names \in [1..n -> Names],
            gus \in [1..n -> {None, Some("songpagu")}]} : n \in 0..MaxListings}

ReviewTables ==
  {EmptyFrame}
  \cup {[columns |-> ReviewColumns,
         rows |-> [i \in DOMAIN SeqOfNames(S) |-> ReviewRow(SeqOfNames(S)[i])]] :
          S \in SUBSET Names}

DealTables ==
  {EmptyFrame}
  \cup UNION {{[columns |-> DealColumns,
                rows |-> [i \in DOMAIN SeqOfNames(S) |->
                            DealRow(SeqOfNames(S)[i], gus[SeqOfNames(S)[i]])]] :
                 gus \in [S -> {None, Some("mapogu")}]} : S \in SUBSET Names}

MergeInit ==
  /\ \E apartments \in ApartmentLists, reviews \in ReviewTables, deals \in DealTables :
       mIn = Some([apartments |-> apartments, reviews |-> reviews, deals |-> deals])
  /\ mOut = NoCall

\* main(): `if not apartments: return` ends the job before merge_data.
MainNoData ==
  /\ mOut = NoCall
  /\ mIn[1].apartments = <<>>
  /\ mOut' = [op |-> "main_return"]
  /\ UNCHANGED <<mIn, parserVars, queryVars, encVars, engineVars, toolVars, procVars>>

\* documents = merge_data(apartments, reviews, deals)
DoMergeData ==
  /\ mOut = NoCall
  /\ mIn[1].apartments # <<>>
  /\ LET r == MergeData(mIn[1].apartments, mIn[1].reviews, mIn[1].deals) IN
     mOut' = [op |-> "merge_data", raised |-> r.raised, docs |-> r.docs]
  /\ UNCHANGED <<mIn, parserVars, queryVars, encVars, engineVars, toolVars, procVars>>

\* search_engine.load_and_merge_data ------------------------------------------
\* The column headers of the three CSV files after aggregation, in file order;
\* "sujipjiyeok" is the listing master's district column (U+C218 U+C9D1 U+C9C0
\* U+C5ED).
CsvListingColumns == <<"kaptCode", "kaptName", "doroJuso", "sujipjiyeok">>
ReviewsAggColumns == <<"kaptName", "review_score", "pros", "cons">>
LatestDealsColumns == <<"kaptName", "gu", "dong", "price_manwon", "area_m2",
                        "floor", "year_built">>

\* The elements of a list, as a set.
SeqRange(s) == {s[i] : i \in DOMAIN s}

\* merged.rename(columns={...}): the new name of a column.
RenameColumn(c) ==
  CASE c = "kaptCode" -> "kapt_code"
    [] c = "kaptName" -> "kapt_name"
    [] c = "doroJuso" -> "doro_juso"
    [] c = "sujipjiyeok" -> "gu"
    [] OTHER -> c

\* The columns of frame.merge(...).merge(...), left to right: the left frame's
\* columns, then the right frame's.
MergedColumnOrder ==
  CsvListingColumns \o Tail(ReviewsAggColumns) \o Tail(LatestDealsColumns)
  \o <<"gu_x", "gu_y">>

\* merged['gu'] = merged['gu_x'].fillna(merged['gu_y']); drop gu_x, gu_y:
\* taken only when both suffixed columns exist.
FillGuXY(df) ==
  IF "gu_x" \in df.columns /\ "gu_y" \in df.columns
  THEN [columns |-> (df.columns \ {"gu_x", "gu_y"}) \cup {"gu"},
        rows |-> [i \in DOMAIN df.rows |->
                    [c \in (df.columns \ {"gu_x", "gu_y"}) \cup {"gu"} |->
                       IF c = "gu"
                       THEN IF df.rows[i]["gu_x"] # None THEN df.rows[i]["gu_x"]
                            ELSE df.rows[i]["gu_y"]
                       ELSE df.rows[i][c]]]]
  ELSE df

\* rename followed by to_dict('records'): each record is built as a dict from
\* the (name, value) pairs of the columns left to right, so of two columns
\* that carry the same name after the rename the later one gives the value.
ToDictRecords(df) ==
  LET present == SelectSeq(MergedColumnOrder, LAMBDA c : c \in df.columns)
      keys == {RenameColumn(c) : c \in df.columns}
      last(k) == present[CHOOSE i \in DOMAIN present :
                           /\ RenameColumn(present[i]) = k
                           /\ \A j \in DOMAIN present :
                                RenameColumn(present[j]) = k => j <= i]
  IN [i \in DOMAIN df.rows |-> [k \in keys |-> df.rows[i][last(k)]]]

\* load_and_merge_data on the listing frame, the aggregated reviews and the
\* latest deals.  A file without a header makes read_csv raise; every
\* exception is caught and the function returns [].
LoadAndMergeData(apartments_df, reviews_agg, latest_deals) ==
  IF \E df \in {apartments_df, reviews_agg, latest_deals} : df.columns = {}
  THEN <<>>
  ELSE
    LET m1 == LeftMerge(apartments_df, reviews_agg, "kaptName", "_x", "_y")
        m2 == IF m1.raised THEN m1
              ELSE LeftMerge(m1.frame, latest_deals, "kaptName", "_x", "_y")
    IN IF m2.raised THEN <<>>
       ELSE ToDictRecords(FillGuXY(m2.frame))

\* The listing CSV that load_apartments_data turns into `apartments`.
CsvListings(apartments) ==
  [columns |-> SeqRange(CsvListingColumns),
   rows |-> [i \in DOMAIN apartments |->
               [c \in SeqRange(CsvListingColumns) |-> apartments[i][RenameColumn(c)]]]]

\* A loaded table with its key column under the CSV's name and the columns
\* that load_and_merge_data selects.
CsvKeyed(df, columns) ==
  IF df.columns = {} THEN df
  ELSE [columns |-> SeqRange(columns),
        rows |-> [i \in DOMAIN df.rows |->
                    [c \in SeqRange(columns) |-> df.rows[i][RenameColumn(c)]]]]

\* documents = load_and_merge_data(apartments_csv, reviews_csv, deals_csv)
DoLoadAndMergeData ==
  /\ mOut = NoCall
  /\ LET docs == LoadAndMergeData(CsvListings(mIn[1].apartments),
                                  CsvKeyed(mIn[1].reviews, ReviewsAggColumns),
                                  CsvKeyed(mIn[1].deals, LatestDealsColumns)) IN
     mOut' = [op |-> "load_and_merge_data", raised |-> FALSE, docs |-> docs]
  /\ UNCHANGED <<mIn, parserVars, queryVars, encVars, engineVars, toolVars, procVars>>

InitMerge == MergeInit /\ ParserIdle /\ QueryIdle /\ EncIdle /\ EngineIdle /\ ToolIdle /\ ProcIdle
NextMerge == MainNoData \/ DoMergeData \/ DoLoadAndMergeData
SpecMerge == InitMerge /\ [][NextMerge]_vars

\* doc.get(field): None when the record has no such key.
Get(doc, field) == IF field \in DOMAIN doc THEN doc[field] ELSE None

HasRow(df, name) == \E i \in DOMAIN df.rows : df.rows[i]["kapt_name"] = name

DealGu(deals, name) ==
  IF HasRow(deals, name)
  THEN (deals.rows[CHOOSE i \in DOMAIN deals.rows : deals.rows[i]["kapt_name"] = name])["gu"]
  ELSE None

\* C11: in the records of merge_data and of load_and_merge_data alike, a
\* listing whose master row and matched latest deal row both carry a district
\* gets the master's district, and the deal's district is used only when the
\* master's is null.
C11_GuPriority ==
  (mOut # NoCall /\ mOut.op \in {"merge_data", "load_and_merge_data"}
     /\ Len(mOut.docs) = Len(mIn[1].apartments)) =>
    \A i \in DOMAIN mOut.docs :
      LET apt == mIn[1].apartments[i]
          dealGu == DealGu(mIn[1].deals, apt.kapt_name)
      IN dealGu # None =>
           Get(mOut.docs[i], "gu") = (IF apt.gu # None THEN apt.gu ELSE dealGu)

\* The same priority, for merge_data alone.
C11_MergeDataGuPriority ==
  (mOut # NoCall /\ mOut.op = "merge_data") =>
    \A i \in DOMAIN mOut.docs :
      LET apt == mIn[1].apartments[i]
          dealGu == DealGu(mIn[1].deals, apt.kapt_name)
      IN dealGu # None =>
           Get(mOut.docs[i], "gu") = (IF apt.gu # None THEN apt.gu ELSE dealGu)

\* indexer.load_deals_data -----------------------------------------------------
\* Rows of the transaction history and distinct dates in it.
MaxDeals == 3
MaxDate == 2

\* Row i of the CSV file: its price tells the rows apart.
CsvDealRow(name, date, i) ==
  [apt_name |-> name, gu |-> "songpagu", dong |-> "dong", deal_date |-> date,
   price_manwon |-> i, area_m2 |-> 84, floor |-> 10, year_built |-> 2010,
   price_krw |-> i * 10000]

\* The transaction histories read by pd.read_csv (possibly no row).
DealHistories ==
  UNION {{[i \in 1..n |-> CsvDealRow(names[i], dates[i], i)] :
            names \in [1..n -> Names], dates \in [1..n -> 1..MaxDate]} :
         n \in 0..MaxDeals}

\* The oldest rows first.
SortValues_Ascending(rows) ==
  {[i \in DOMAIN rows |-> rows[p[i]]] :
     p \in {q \in Permutations(DOMAIN rows) :
              \A i, j \in DOMAIN rows :
                i < j => rows[q[i]].deal_date <= rows[q[j]].deal_date}}

\* df.sort_values('deal_date', ascending=False): the orders the sort may
\* produce; the default sort is not stable, so rows of one date come in any
\* order.
SortValues(rows) ==
  {[i \in DOMAIN rows |-> rows[p[i]]] :
     p \in {q \in Permutations(DOMAIN rows) :
              \A i, j \in DOMAIN rows :
                i < j => rows[q[i]].deal_date >= rows[q[j]].deal_date}}

\* .drop_duplicates('apt_name'): the first row of each name is kept.
DropDuplicates(rows) ==
  SelectSeq([i \in DOMAIN rows |->
               [row |-> rows[i],
                first |-> \A j \in 1..(i - 1) : rows[j].apt_name # rows[i].apt_name]],
            LAMBDA e : e.first)

\* latest_df[[...]].rename(columns={'apt_name': 'kapt_name'})
SelectAndRename(kept) ==
  [i \in DOMAIN kept |->
     [kapt_name |-> kept[i].row.apt_name, gu |-> kept[i].row.gu,
      dong |-> kept[i].row.dong, price_manwon |-> kept[i].row.price_manwon,
      area_m2 |-> kept[i].row.area_m2, floor |-> kept[i].row.floor,
      year_built |-> kept[i].row.year_built, price_krw |-> kept[i].row.price_krw]]

\* load_deals_data(csv_path): the frames it may return for a history.
LoadDealsData(history) ==
  {SelectAndRename(DropDuplicates(sorted)) : sorted \in SortValues(history)}

DealsInit == mIn \in {Some(h) : h \in DealHistories} /\ mOut = NoCall

\* deals = load_deals_data(DEALS_CSV)
DoLoadDealsData ==
  /\ mOut = NoCall
  /\ \E latest_df \in LoadDealsData(mIn[1]) :
       mOut' = [op |-> "load_deals_data", ret |-> latest_df]
  /\ UNCHANGED <<mIn, parserVars, queryVars, encVars, engineVars, toolVars, procVars>>

InitDeals ==
  DealsInit /\ ParserIdle /\ QueryIdle /\ EncIdle /\ EngineIdle /\ ToolIdle /\ ProcIdle
NextDeals == DoLoadDealsData
SpecDeals == InitDeals /\ [][NextDeals]_vars

\* The rows of a history for one name, and those of them no other row of the
\* name is as recent as.
RowsOf(history, name) == {i \in DOMAIN history : history[i].apt_name = name}

Latest(history, name) ==
  {i \in RowsOf(history, name) :
     \A j \in RowsOf(history, name) \ {i} :
       history[i].deal_date > history[j].deal_date}

\* C26: load_deals_data returns exactly one row for each name of the history
\* and none for other names; when one row of a name is more recent than all
\* its other rows, the returned row is that one.
C26_LatestDealPerName ==
  mOut.op = "load_deals_data" =>
    LET history == mIn[1]
        ret == mOut.ret
    IN /\ \A i \in DOMAIN ret : RowsOf(history, ret[i].kapt_name) # {}
       /\ \A name \in Names :
            RowsOf(history, name) # {} =>
              /\ Cardinality({i \in DOMAIN ret : ret[i].kapt_name = name}) = 1
              /\ \A l \in Latest(history, name) : \A i \in DOMAIN ret :
                   ret[i].kapt_name = name =>
                     ret[i].price_manwon = history[l].price_manwon

\* A name with an older row before its most recent one, beside another name.
C26_Witness ==
  /\ mOut.op = "load_deals_data"
  /\ Len(mOut.ret) = 2
  /\ \E name \in Names : \E l \in Latest(mIn[1], name) :
       \E j \in RowsOf(mIn[1], name) : j < l

====
